---------------------------- MODULE Spec2Model ----------------------------
(***************************************************************************)
(* Model of the forecast core of BloomWatch: ForecastManager as it appears *)
(* in src/forecast.js and, a second time, inside src/app.js.               *)
(*                                                                         *)
(* Numbers.  A JavaScript value that the forecast code handles is one of   *)
(*   [k |-> "num", n, d]   the finite number n/d (d > 0, lowest terms)     *)
(*   [k |-> "nan"]         NaN                                             *)
(*   [k |-> "inf", n]      +Infinity (n = 1) or -Infinity (n = -1)         *)
(*   [k |-> "null"]        null or undefined (what `v == null` accepts)    *)
(* Finite arithmetic is exact; rounding of 64-bit floats is not modelled.  *)
(*                                                                         *)
(* Dates.  An ISO calendar date is [y, m, d]; the Date methods used by the *)
(* code (setUTCDate with day overflow/underflow) are modelled on it.       *)
(***************************************************************************)
EXTENDS Integers, Sequences, FiniteSets, TLC

(***************************************************************************)
(* JavaScript numbers                                                      *)
(***************************************************************************)
Abs(x) == IF x < 0 THEN -x ELSE x

RECURSIVE GCD(_, _)
GCD(a, b) == IF b = 0 THEN a ELSE GCD(b, a % b)

Null == [k |-> "null", n |-> 0, d |-> 1]
NaN  == [k |-> "nan",  n |-> 0, d |-> 1]
PosInf == [k |-> "inf", n |-> 1, d |-> 1]
NegInf == [k |-> "inf", n |-> -1, d |-> 1]

\* the finite number n/d, d > 0, in lowest terms
Q(n, d) ==
  LET g == GCD(Abs(n), d)
  IN  [k |-> "num", n |-> n \div g, d |-> d \div g]

Num(i) == [k |-> "num", n |-> i, d |-> 1]

\* `v == null` / `v != null`
IsNull(v) == v.k = "null"
IsNum(v)  == v.k = "num"

\* a + b
Add(a, b) ==
  IF a.k = "nan" \/ b.k = "nan" THEN NaN
  ELSE IF a.k = "inf" /\ b.k = "inf" THEN (IF a.n = b.n THEN a ELSE NaN)
  ELSE IF a.k = "inf" THEN a
  ELSE IF b.k = "inf" THEN b
  ELSE Q(a.n * b.d + b.n * a.d, a.d * b.d)

\* a - b
Neg(a) == IF a.k = "num" \/ a.k = "inf" THEN [a EXCEPT !.n = -a.n] ELSE a
Sub(a, b) == Add(a, Neg(b))

\* a * b on finite numbers
Mul(a, b) == Q(a.n * b.n, a.d * b.d)

\* 1 / a for a finite non-zero number
Recip(a) == IF a.n < 0 THEN Q(-a.d, -a.n) ELSE Q(a.d, a.n)

\* a / c for a positive integer count c (as in sum/arr.length)
DivCount(a, c) ==
  IF a.k = "num" THEN Q(a.n, a.d * c) ELSE a

\* a < b; every comparison with NaN is false
Lt(a, b) ==
  IF a.k = "nan" \/ b.k = "nan" THEN FALSE
  ELSE IF a.k = "inf" THEN a.n = -1 /\ ~(b.k = "inf" /\ b.n = -1)
  ELSE IF b.k = "inf" THEN b.n = 1
  ELSE a.n * b.d < b.n * a.d

Le(a, b) == a.k # "nan" /\ b.k # "nan" /\ ~Lt(b, a)

\* Math.min / Math.max: NaN if either argument is NaN
MathMin(a, b) ==
  IF a.k = "nan" \/ b.k = "nan" THEN NaN ELSE IF Lt(b, a) THEN b ELSE a

MathMax(a, b) ==
  IF a.k = "nan" \/ b.k = "nan" THEN NaN ELSE IF Lt(a, b) THEN b ELSE a

\* arr.reduce((a,b)=>a+b, 0)
RECURSIVE SumSeq(_)
SumSeq(s) == IF s = <<>> THEN Num(0) ELSE Add(SumSeq(SubSeq(s, 1, Len(s) - 1)), s[Len(s)])

\* arr.filter(v => v != null)
RECURSIVE NonNull(_)
NonNull(s) ==
  IF s = <<>> THEN <<>>
  ELSE IF IsNull(Head(s)) THEN NonNull(Tail(s)) ELSE <<Head(s)>> \o NonNull(Tail(s))

\* arr.length ? sum/arr.length : null
MeanOrNull(arr) == IF Len(arr) > 0 THEN DivCount(SumSeq(arr), Len(arr)) ELSE Null

(***************************************************************************)
(* Calendar dates and the Date methods the code uses                       *)
(***************************************************************************)
IsLeap(y) == (y % 4 = 0 /\ y % 100 # 0) \/ y % 400 = 0

DaysInMonth(y, m) ==
  IF m = 2 THEN (IF IsLeap(y) THEN 29 ELSE 28)
  ELSE IF m \in {4, 6, 9, 11} THEN 30 ELSE 31

Date(y, m, d) == [y |-> y, m |-> m, d |-> d]

\* Date.prototype.setUTCDate(day) on the date dt: the day of the month is
\* replaced by `day`, and a day outside the month carries into the
\* neighbouring months and years.
RECURSIVE SetUTCDate(_, _)
SetUTCDate(dt, day) ==
  IF day < 1 THEN
    LET py == IF dt.m = 1 THEN dt.y - 1 ELSE dt.y
        pm == IF dt.m = 1 THEN 12 ELSE dt.m - 1
    IN  SetUTCDate(Date(py, pm, 1), day + DaysInMonth(py, pm))
  ELSE IF day > DaysInMonth(dt.y, dt.m) THEN
    LET ny == IF dt.m = 12 THEN dt.y + 1 ELSE dt.y
        nm == IF dt.m = 12 THEN 1 ELSE dt.m + 1
    IN  SetUTCDate(Date(ny, nm, 1), day - DaysInMonth(dt.y, dt.m))
  ELSE Date(dt.y, dt.m, day)

\* d.setUTCDate(d.getUTCDate() + k)
AddDays(dt, k) == SetUTCDate(dt, dt.d + k)

\* a.date < b.date on ISO strings
DateLt(a, b) ==
  \/ a.y < b.y
  \/ a.y = b.y /\ a.m < b.m
  \/ a.y = b.y /\ a.m = b.m /\ a.d < b.d

\* _doy(iso): whole days since Date.UTC(year, 0, 0), the 31 December before
RECURSIVE DaysBeforeMonth(_, _)
DaysBeforeMonth(y, m) ==
  IF m = 1 THEN 0 ELSE DaysBeforeMonth(y, m - 1) + DaysInMonth(y, m - 1)

Doy(dt) == DaysBeforeMonth(dt.y, dt.m) + dt.d


(***************************************************************************)
(* Program constants                                                       *)
(***************************************************************************)
\* for (let i=1; i<=30; i++)
Horizon == 30
\* keys.slice(-Math.min(30, keys.length))
WxWindow == 30
\* the default weather proxy: `: 10`
DefaultProxy == 10
\* if (ds.x.length < 24)
MinSamples == 24
\* composites are 16 days apart: Math.ceil((365/16)*years)
CompositeDays == 16

\* the two copies of ForecastManager
Impls == {"forecast.js", "app.js"}

(***************************************************************************)
(* _forecastNext30Days                                                     *)
(*                                                                         *)
(* viSeries is a sequence of [date, value]; wxByDate is the sequence of    *)
(* [date, tMean, pSum] in the order of Object.keys(wxByDate), which for    *)
(* date-string keys is insertion order.                                    *)
(***************************************************************************)
Min2(a, b) == IF a < b THEN a ELSE b
Max2(a, b) == IF a > b THEN a ELSE b

\* s.slice(-k) for 0 < k <= s.length; s.slice(-0) is s.slice(0), the whole of s
SliceLast(s, k) == IF k = 0 THEN s ELSE SubSeq(s, Len(s) - k + 1, Len(s))

\* keys.slice(-Math.min(30, keys.length))
TakeKeys(wxByDate) == SliceLast(wxByDate, Min2(WxWindow, Len(wxByDate)))

\* tConst: the mean of the non-null tMean of the taken keys, else 10
TConst(wxByDate) ==
  LET take == TakeKeys(wxByDate)
      tArr == NonNull([i \in 1..Len(take) |-> take[i].tMean])
  IN  IF Len(tArr) > 0 THEN DivCount(SumSeq(tArr), Len(tArr)) ELSE Num(DefaultProxy)

\* pConst: src/app.js sums the non-null pSum of the taken keys;
\* src/forecast.js divides that sum by their number
PConst(wxByDate, impl) ==
  LET take == TakeKeys(wxByDate)
      pArr == NonNull([i \in 1..Len(take) |-> take[i].pSum])
  IN  IF Len(pArr) > 0
      THEN (IF impl = "forecast.js" THEN DivCount(SumSeq(pArr), Len(pArr))
            ELSE SumSeq(pArr))
      ELSE Num(DefaultProxy)

\* hist[i]?.value ?? null, i counted from 1
ValueAt(hist, i) == IF i \in 1..Len(hist) THEN hist[i].value ELSE Null

\* hist[len-1]?.value ?? null
Lag1Off(hist) == ValueAt(hist, Len(hist) - 1)
Lag1(hist) == ValueAt(hist, Len(hist))

\* hist[len-2]?.value ?? null
Lag2Off(hist) == ValueAt(hist, Len(hist) - 2)
Lag2(hist) == ValueAt(hist, Len(hist) - 1)

\* the mean of the non-null values of hist.slice(-3), or null
Roll3(hist) ==
  LET last == SliceLast(hist, Min2(3, Len(hist)))
      arr  == NonNull([i \in 1..Len(last) |-> last[i].value])
  IN  MeanOrNull(arr)

\* Math.sin(2*Math.PI*doy/365) and Math.cos(2*Math.PI*doy/365), kept symbolic
SinDoy(doy) == [k |-> "sin", n |-> doy, d |-> 365]
CosDoy(doy) == [k |-> "cos", n |-> doy, d |-> 365]

\* model.infer(f).  A fitted model is a closure over its weights; the
\* forecaster takes any model, so a model here is one of a bounded family of
\* functions of the feature vector:
\*   "periodic": a on days of even day-of-year, b on the others (any output,
\*               finite or not, that depends on the seasonal features);
\*   "drift":    lag1 + a (a linear model with weight 1 on lag1, intercept a).
\* infer standardises the row with mu and sig and un-standardises the
\* output with ySig and yMu: the variables of _trainModel that the closure
\* captured, model.std here.
InferReads(model) == model.std
Infer(model, f) ==
  IF model.type = "periodic"
  THEN (IF f[4].n % 2 = 0 THEN model.a ELSE model.b)
  ELSE Add(f[1], model.a)

ClipLo == Q(-1, 10)
ClipHi == Num(1)

\* Math.max(-0.1, Math.min(1.0, vhat))
ClipUpperOnly(vhat) == MathMin(ClipHi, vhat)
Clip(vhat) == MathMax(ClipLo, MathMin(ClipHi, vhat))

\* d.setUTCDate(d.getUTCDate()+1)
NextDateNoCarry(d) ==
  IF d.d + 1 > DaysInMonth(d.y, d.m) THEN Date(d.y, d.m, 1) ELSE Date(d.y, d.m, d.d + 1)
NextDate(d) == AddDays(d, 1)

\* const hist = viSeries.slice(): is hist the array object the caller gave?
\* slice() returns a new array.
SharesArrayAssigned(viSeries) == TRUE
SharesArray(viSeries) == FALSE

\* the state of the loop before its first step: the proxies, the copy of
\* the history and the date of its last entry.  `feats` records the feature
\* vector handed to infer at each step (<<>> at a step that stalls), `reads`
\* the standardisation parameters each call of infer read; `given` is the
\* caller's array as it is now and `shared` says whether hist is that array.
ForecastStart(viSeries, wxByDate, impl) ==
  [ tConst |-> TConst(wxByDate),
    pConst |-> PConst(wxByDate, impl),
    hist   |-> viSeries,
    given  |-> viSeries,
    shared |-> SharesArray(viSeries),
    d      |-> viSeries[Len(viSeries)].date,
    i      |-> 1,
    out    |-> <<>>,
    feats  |-> <<>>,
    raw    |-> <<>>,
    reads  |-> <<>> ]

\* if (lag1==null || lag2==null || r3==null)
StallsNoLag2(lag1, lag2, r3) == IsNull(lag1) \/ IsNull(r3)
Stalls(lag1, lag2, r3) == IsNull(lag1) \/ IsNull(lag2) \/ IsNull(r3)

\* one pass of the loop body.  `raw` records what infer returned.
ForecastStep(st, model) ==
  LET iso  == NextDate(st.d)
      lag1 == Lag1(st.hist)
      lag2 == Lag2(st.hist)
      r3   == Roll3(st.hist)
  IN  IF Stalls(lag1, lag2, r3)
      THEN [st EXCEPT !.d = iso, !.i = st.i + 1,
                      !.out = Append(st.out, [date |-> iso, value |-> Null]),
                      !.feats = Append(st.feats, <<>>),
                      !.raw = Append(st.raw, Null)]
      ELSE
        LET f == <<lag1, lag2, r3, SinDoy(Doy(iso)), CosDoy(Doy(iso)),
                   st.tConst, st.pConst>>
            vhat    == Infer(model, f)
            clipped == Clip(vhat)
        IN  [st EXCEPT !.d = iso, !.i = st.i + 1,
                       !.out = Append(st.out, [date |-> iso, value |-> clipped]),
                       !.hist = Append(st.hist, [date |-> iso, value |-> clipped]),
                       !.given = IF st.shared
                                 THEN Append(st.hist, [date |-> iso, value |-> clipped])
                                 ELSE st.given,
                       !.feats = Append(st.feats, f),
                       !.raw = Append(st.raw, vhat),
                       !.reads = Append(st.reads, InferReads(model))]

\* the whole loop, as run() calls it
RECURSIVE ForecastLoop(_, _)
ForecastLoop(st, model) ==
  IF st.i > Horizon THEN st ELSE ForecastLoop(ForecastStep(st, model), model)

ForecastNext30Days(viSeries, wxByDate, model, impl) ==
  ForecastLoop(ForecastStart(viSeries, wxByDate, impl), model)

(***************************************************************************)
(* _fetchWeatherByDate: the aggregation of the daily POWER values          *)
(*                                                                         *)
(* `raw` stands for the two objects T2M and PRECTOTCORR of the response:   *)
(* RawT(raw, day) and RawP(raw, day) are the values stored under a day, or *)
(* Null where the response has no such key.                                *)
(***************************************************************************)
\* the days a response covers: start..end of the request
InRequest(day, start, end) == ~DateLt(day, start) /\ ~DateLt(end, day)

\* T2M[ymd]: absent outside the request, the fill value -999 on the days
\* gapStart..gapEnd where the scenario has a gap, else a temperature that
\* varies with the day
RawT(raw, day) ==
  IF ~InRequest(day, raw.start, raw.end) THEN Null
  ELSE IF raw.gap = "T" /\ InRequest(day, raw.gapStart, raw.gapEnd) THEN Num(-999)
  ELSE Num(8 + day.m + (day.d % 3))

\* PRECTOTCORR[ymd]
RawP(raw, day) ==
  IF ~InRequest(day, raw.start, raw.end) THEN Null
  ELSE IF raw.gap = "P" /\ InRequest(day, raw.gapStart, raw.gapEnd) THEN Num(-999)
  ELSE Num(day.d % 4)

\* get(obj, ymd): Number.isFinite(n) && n > -900 ? n : null
\* (Number(undefined) is NaN)
GetNoSentinel(v) == IF IsNum(v) THEN v ELSE Null
Get(v) == IF IsNum(v) /\ Lt(Num(-900), v) THEN v ELSE Null

\* the values get() accepts on the 17 days d0-8 .. d0+8, in order
RECURSIVE WindowList(_, _, _, _)
WindowList(raw, field, d0, k) ==
  IF k > 8 THEN <<>>
  ELSE LET day == AddDays(d0, k)
           v   == Get(IF field = "T" THEN RawT(raw, day) ELSE RawP(raw, day))
       IN  (IF IsNull(v) THEN <<>> ELSE <<v>>) \o WindowList(raw, field, d0, k + 1)

\* wx[date] = { tMean, pSum }
Aggregate(raw, date) ==
  LET tList == WindowList(raw, "T", date, -8)
      pList == WindowList(raw, "P", date, -8)
  IN  [date  |-> date,
       tMean |-> IF Len(tList) > 0 THEN DivCount(SumSeq(tList), Len(tList)) ELSE Null,
       pSum  |-> IF Len(pList) > 0 THEN SumSeq(pList) ELSE Null]

\* the mapping built from a response, one key per date of the series, in
\* the order of the series (whose dates are distinct)
FetchWeatherByDate(viSeries, raw) ==
  [i \in 1..Len(viSeries) |-> Aggregate(raw, viSeries[i].date)]

(***************************************************************************)
(* _buildDataset                                                           *)
(***************************************************************************)
\* byDate.get(d): new Map(pairs) keeps the last value given for a key
RECURSIVE ByDateGet(_, _, _)
ByDateGet(viSeries, d, i) ==
  IF i = 0 THEN Null
  ELSE IF viSeries[i].date = d THEN viSeries[i].value
  ELSE ByDateGet(viSeries, d, i - 1)

\* wxByDate[d] || {}: a missing key reads as an object without fields
WxGet(wxByDate, d) ==
  LET hits == {i \in 1..Len(wxByDate) : wxByDate[i].date = d}
  IN  IF hits = {} THEN [date |-> d, tMean |-> Null, pSum |-> Null]
      ELSE wxByDate[CHOOSE i \in hits : TRUE]

\* roll(idx, 3), idx counted from 1: the mean of the non-null values of
\* viSeries.slice(max(0, idx-win+1), idx+1), or null
RollCentred(viSeries, idx) ==
  LET s   == Max2(1, idx - 1)
      win == SubSeq(viSeries, s, Min2(Len(viSeries), idx + 1))
      arr == NonNull([j \in 1..Len(win) |-> win[j].value])
  IN  MeanOrNull(arr)
Roll(viSeries, idx) ==
  LET s   == Max2(1, idx - 3 + 1)
      win == SubSeq(viSeries, s, idx)
      arr == NonNull([j \in 1..Len(win) |-> win[j].value])
  IN  MeanOrNull(arr)

\* the test of line 171; wx is the aggregate of the date
SkipSampleNoLag2(v, lag1, lag2, r, wx) ==
  \/ IsNull(v) \/ IsNull(lag1) \/ IsNull(r)
  \/ IsNull(wx.tMean) \/ IsNull(wx.pSum)
SkipSampleNoPrecip(v, lag1, lag2, r, wx) ==
  IsNull(v) \/ IsNull(lag1) \/ IsNull(lag2) \/ IsNull(r) \/ IsNull(wx.tMean)
SkipSample(v, lag1, lag2, r, wx) ==
  \/ IsNull(v) \/ IsNull(lag1) \/ IsNull(lag2) \/ IsNull(r)
  \/ IsNull(wx.tMean) \/ IsNull(wx.pSum)

\* the loop from index i (counted from 1, so it starts at 3) to the end;
\* `idx` records the index each sample was built at
RECURSIVE BuildFrom(_, _, _, _)
BuildFrom(viSeries, wxByDate, i, ds) ==
  IF i > Len(viSeries) THEN ds
  ELSE
    LET n    == Len(viSeries)
        d    == viSeries[i].date
        v    == ByDateGet(viSeries, d, n)
        lag1 == ByDateGet(viSeries, viSeries[i - 1].date, n)
        lag2 == ByDateGet(viSeries, viSeries[i - 2].date, n)
        r7   == Roll(viSeries, i)
        wx   == WxGet(wxByDate, d)
    IN  IF SkipSample(v, lag1, lag2, r7, wx)
        THEN BuildFrom(viSeries, wxByDate, i + 1, ds)
        ELSE BuildFrom(viSeries, wxByDate, i + 1,
               [x   |-> Append(ds.x, <<lag1, lag2, r7, SinDoy(Doy(d)), CosDoy(Doy(d)),
                                       wx.tMean, wx.pSum>>),
                y   |-> Append(ds.y, v),
                idx |-> Append(ds.idx, i)])

BuildDataset(viSeries, wxByDate) ==
  BuildFrom(viSeries, wxByDate, 3, [x |-> <<>>, y |-> <<>>, idx |-> <<>>])

(***************************************************************************)
(* _invSym: Gauss-Jordan elimination with partial pivoting                 *)
(*                                                                         *)
(* A matrix is a sequence of rows, a row a sequence of numbers.            *)
(***************************************************************************)
AbsQ(a) == [a EXCEPT !.n = Abs(a.n)]

\* the epsilon is 1e-8 in src/forecast.js and 1e-10 in src/app.js
EpsExp(impl) == IF impl = "forecast.js" THEN 8 ELSE 10

\* n/d < 10^-e for n >= 0: n * 10^e < d, that is n < ceil(d / 10^e),
\* computed without forming 10^e
RECURSIVE CeilDivPow10(_, _)
CeilDivPow10(d, e) == IF e = 0 THEN d ELSE CeilDivPow10((d + 9) \div 10, e - 1)

\* Math.abs(a) < eps
BelowEps(a, impl) == Abs(a.n) < CeilDivPow10(a.d, EpsExp(impl))

\* throw new Error('Singular matrix') / throw new Error('Singular')
SingularMsg(impl) == IF impl = "forecast.js" THEN "Singular matrix" ELSE "Singular"

\* let p=i; for(let r=i+1;r<n;r++) if (|A[r][i]| > |A[p][i]|) p=r
RECURSIVE PivotRow(_, _, _, _)
PivotRow(A, i, r, p) ==
  IF r > Len(A) THEN p
  ELSE PivotRow(A, i, r + 1, IF Lt(AbsQ(A[p][i]), AbsQ(A[r][i])) THEN r ELSE p)

\* [A[i],A[p]]=[A[p],A[i]]
SwapRows(A, i, p) == [A EXCEPT ![i] = A[p], ![p] = A[i]]

\* for (let j=0;j<n;j++) A[i][j]*=invPivot
ScaleRow(row, c) == [j \in 1..Len(row) |-> Mul(row[j], c)]

\* for (let j=0;j<n;j++) A[r][j]-=f*A[i][j], for every row r but i, with
\* f = A[r][i] read before the row changes
EliminateBelow(B, A, i) ==
  [r \in 1..Len(B) |->
     IF r <= i THEN B[r]
     ELSE [j \in 1..Len(B[r]) |-> Sub(B[r][j], Mul(A[r][i], B[i][j]))]]
Eliminate(B, A, i) ==
  [r \in 1..Len(B) |->
     IF r = i THEN B[r]
     ELSE [j \in 1..Len(B[r]) |-> Sub(B[r][j], Mul(A[r][i], B[i][j]))]]

Identity(n) == [i \in 1..n |-> [j \in 1..n |-> IF i = j THEN Num(1) ELSE Num(0)]]

\* the passes i, i+1, ... of the outer loop on the pair (A, I); `pivots`
\* records the magnitude of the pivot found at each pass
RECURSIVE InvFrom(_, _, _, _, _)
InvFrom(A, I, i, pivots, impl) ==
  IF i > Len(A) THEN [kind |-> "matrix", I |-> I, msg |-> "", pivots |-> pivots]
  ELSE
    LET p   == PivotRow(A, i, i + 1, i)
        piv == AbsQ(A[p][i])
    IN  IF BelowEps(A[p][i], impl)
        THEN [kind |-> "throw", I |-> <<>>, msg |-> SingularMsg(impl),
              pivots |-> Append(pivots, piv)]
        ELSE
          LET A1  == SwapRows(A, i, p)
              I1  == SwapRows(I, i, p)
              inv == Recip(A1[i][i])
              A2  == [A1 EXCEPT ![i] = ScaleRow(A1[i], inv)]
              I2  == [I1 EXCEPT ![i] = ScaleRow(I1[i], inv)]
          IN  InvFrom(Eliminate(A2, A2, i), Eliminate(I2, A2, i), i + 1,
                      Append(pivots, piv), impl)

\* _invSym without the test of the pivot: it returns what it has
InvSymNoCheck(M, impl) ==
  LET r == InvFrom(M, Identity(Len(M)), 1, <<>>, impl)
  IN  [r EXCEPT !.kind = "matrix", !.msg = ""]
InvSym(M, impl) == InvFrom(M, Identity(Len(M)), 1, <<>>, impl)

\* _matMul(A,B): r.reduce((s,_,k)=>s + A[ri][k]*B[k][j],0)
RECURSIVE DotFrom(_, _, _, _)
DotFrom(A, B, ri, jk) ==
  IF jk[2] = 0 THEN Num(0)
  ELSE Add(DotFrom(A, B, ri, <<jk[1], jk[2] - 1>>), Mul(A[ri][jk[2]], B[jk[2]][jk[1]]))
MatMul(A, B) ==
  [ri \in 1..Len(A) |-> [j \in 1..Len(B[1]) |-> DotFrom(A, B, ri, <<j, Len(A[ri])>>)]]

(***************************************************************************)
(* The numbers of JavaScript are IEEE-754 doubles.  Where the rounding of  *)
(* a sum decides what the code does (the mean of a column, line 195), the  *)
(* doubles are computed exactly: a natural number of any size is the       *)
(* sequence of its digits in base 2^15, least significant first and the    *)
(* last digit not 0 (zero is <<>>), and a double that is not negative is   *)
(* m * 2^exp with m of exactly Mantissa binary digits, or zero.            *)
(***************************************************************************)
Mantissa == 53
LimbBits == 15
Base == 2 ^ LimbBits
\* binary digits a quotient is taken with beyond the Mantissa, and the
\* binary digits of the quotient that gives a decimal literal
QuotientBits == 30
LiteralBits == 75

RECURSIVE IntLen(_)
IntLen(n) == IF n = 0 THEN 0 ELSE 1 + IntLen(n \div 2)
RECURSIVE BigOf(_)
BigOf(n) == IF n = 0 THEN <<>> ELSE <<n % Base>> \o BigOf(n \div Base)
BigLen(a) == IF a = <<>> THEN 0 ELSE LimbBits * (Len(a) - 1) + IntLen(a[Len(a)])
\* without the zeros above the highest digit that is not 0
RECURSIVE Canon(_)
Canon(a) ==
  IF a = <<>> \/ a[Len(a)] # 0 THEN a ELSE Canon(SubSeq(a, 1, Len(a) - 1))

RECURSIVE BigAddFrom(_, _, _, _)
BigAddFrom(a, b, i, c) ==
  IF i > Len(a) /\ i > Len(b) THEN (IF c = 0 THEN <<>> ELSE <<c>>)
  ELSE LET t == (IF i <= Len(a) THEN a[i] ELSE 0) + (IF i <= Len(b) THEN b[i] ELSE 0) + c
       IN  <<t % Base>> \o BigAddFrom(a, b, i + 1, t \div Base)
BigAdd(a, b) == BigAddFrom(a, b, 1, 0)

\* a * c for c <= 2^14
RECURSIVE BigMulFrom(_, _, _, _)
BigMulFrom(a, c, i, carry) ==
  IF i > Len(a) THEN (IF carry = 0 THEN <<>> ELSE <<carry>>)
  ELSE LET t == a[i] * c + carry
       IN  <<t % Base>> \o BigMulFrom(a, c, i + 1, t \div Base)

\* a divided by d < 2^15, from the highest digit down: quotient, remainder
RECURSIVE BigDivFrom(_, _, _, _)
BigDivFrom(a, d, i, r) ==
  IF i = 0 THEN [q |-> <<>>, r |-> r]
  ELSE LET t    == r * Base + a[i]
           rest == BigDivFrom(a, d, i - 1, t % d)
       IN  [q |-> Append(rest.q, t \div d), r |-> rest.r]
BigDiv(a, d) ==
  LET res == BigDivFrom(a, d, Len(a), 0)
  IN  [q |-> Canon(res.q), r |-> res.r]

\* a * 2^k
ShiftLeft(a, k) ==
  IF a = <<>> THEN a
  ELSE [i \in 1..(k \div LimbBits) |-> 0] \o BigMulFrom(a, 2 ^ (k % LimbBits), 1, 0)
\* a \div 2^k, and whether a remainder is left
ShiftRight(a, k) ==
  LET w   == k \div LimbBits
      res == BigDiv(SubSeq(a, w + 1, Len(a)), 2 ^ (k % LimbBits))
  IN  [q |-> res.q, r |-> res.r # 0 \/ \E i \in 1..Min2(w, Len(a)) : a[i] # 0]

DZero == [m |-> <<>>, exp |-> 0]

\* the double nearest to (a + f) * 2^exp, ties to the even one, where
\* 0 <= f < 1 and `more` says f > 0
RoundToDouble(a, exp, more) ==
  IF a = <<>> THEN DZero
  ELSE IF BigLen(a) <= Mantissa
  THEN [m |-> ShiftLeft(a, Mantissa - BigLen(a)), exp |-> exp - (Mantissa - BigLen(a))]
  ELSE LET k      == BigLen(a) - Mantissa
           t      == ShiftRight(a, k - 1)
           kept   == BigDiv(t.q, 2)
           sticky == t.r \/ more
           up     == kept.r = 1 /\ (sticky \/ kept.q[1] % 2 = 1)
           r      == IF up THEN BigAdd(kept.q, <<1>>) ELSE kept.q
       IN  IF BigLen(r) > Mantissa
           THEN [m |-> BigDiv(r, 2).q, exp |-> exp + k + 1]
           ELSE [m |-> r, exp |-> exp + k]

\* a + b
DoubleAdd(a, b) ==
  IF a = DZero THEN b
  ELSE IF b = DZero THEN a
  ELSE LET e == Min2(a.exp, b.exp)
       IN  RoundToDouble(BigAdd(ShiftLeft(a.m, a.exp - e), ShiftLeft(b.m, b.exp - e)),
                         e, FALSE)

\* the double a decimal literal n/d >= 0 stands for (d < 2^15)
ToDouble(v) ==
  LET res == BigDiv(ShiftLeft(BigOf(v.n), LiteralBits), v.d)
  IN  RoundToDouble(res.q, 0 - LiteralBits, res.r # 0)

\* a / n for a whole number 0 < n < 2^15
DoubleDivInt(a, n) ==
  IF a = DZero THEN DZero
  ELSE LET res == BigDiv(ShiftLeft(a.m, QuotientBits), n)
       IN  RoundToDouble(res.q, a.exp - QuotientBits, res.r # 0)

\* col.reduce((a,b)=>a+b,0)
RECURSIVE DoubleSum(_)
DoubleSum(col) ==
  IF col = <<>> THEN DZero
  ELSE DoubleAdd(DoubleSum(SubSeq(col, 1, Len(col) - 1)), col[Len(col)])

\* lines 194-197 for one column of doubles that are not negative:
\*   m = col.reduce((a,b)=>a+b,0)/col.length
\*   s = Math.sqrt(col.reduce((a,b)=>a+(b-m)*(b-m),0)/Math.max(1,col.length-1)) || 1
\* b - m is 0 exactly when b = m; the sum of the squares is then 0 and s is
\* 1, else the square root is positive (the squares of the differences of
\* the values tried do not underflow) and is kept as its name.
ColStd(col) ==
  LET m == DoubleDivInt(DoubleSum(col), Len(col))
  IN  [m |-> m,
       s |-> IF \A i \in 1..Len(col) : col[i] = m THEN Num(1)
             ELSE [k |-> "sqrt", n |-> 1, d |-> Max2(1, Len(col) - 1)]]

(***************************************************************************)
(* _trainModel                                                             *)
(*                                                                         *)
(* The standardised matrix and XtX hold square roots and sines, which are  *)
(* not rational: the XtX that the linear fit inverts is an argument here,  *)
(* `xtx`, and so is the outcome of the tf.js fit, `tfFit` ("ok" or the     *)
(* message of the error that model.fit rejects with).  `fitted` is the     *)
(* infer function of the model, see Infer.                                 *)
(***************************************************************************)
\* the columns of the feature vector that hold rational numbers; columns 4
\* and 5 hold the sine and the cosine
NumericCols == {1, 2, 3, 6, 7}
Column(X, j) == [i \in 1..Len(X) |-> X[i][j]]

\* col.reduce((a,b)=>a+b,0)/col.length
ColMeanLessOne(col) == DivCount(SumSeq(col), Max2(1, Len(col) - 1))
ColMean(col) == DivCount(SumSeq(col), Len(col))

\* mu, sig, yMu, ySig of lines 191-203.  A mean of sines and a standard
\* deviation (a square root) are not rational: they are kept as the name of
\* what they are computed from, the column and the number of rows.
NoStd == [mu |-> <<>>, sig |-> <<>>, yMu |-> Null, ySig |-> Null]
StdParams(ds) ==
  [mu   |-> [j \in 1..7 |->
               IF j \in NumericCols THEN ColMean(Column(ds.x, j))
               ELSE [k |-> "mean", col |-> j, rows |-> Len(ds.x)]],
   sig  |-> [j \in 1..7 |-> [k |-> "sd", col |-> j, rows |-> Len(ds.x)]],
   yMu  |-> ColMean(ds.y),
   ySig |-> [k |-> "sd", col |-> 0, rows |-> Len(ds.y)]]

\* the infer closure: the fitted function and the variables it captured
Closure(fitted, std) == [fitted EXCEPT !.std = std]

\* the result of an async function: a value or a thrown error
Throw(msg) == [kind |-> "throw", msg |-> msg, type |-> "", infer |-> Null,
               samples |-> 0, inv |-> <<>>, trainer |-> "", tfChecks |-> 0]

\* `trainer` is the branch of `if (global.tf)` that ran and `tfChecks` the
\* number of times global.tf was tested
TrainModelNeedsTf(ds, tf, tfFit, xtx, fitted, impl) ==
  IF Len(ds.x) = 0
  THEN Throw("TypeError")
  ELSE IF tf /\ tfFit = "ok"
  THEN [kind |-> "model", msg |-> "", type |-> "tf",
        infer |-> Closure(fitted, StdParams(ds)),
        samples |-> Len(ds.x), inv |-> <<>>, trainer |-> "tf", tfChecks |-> 1]
  ELSE [Throw(IF tf THEN tfFit ELSE "tf is not defined")
          EXCEPT !.trainer = "tf", !.tfChecks = 1]
TrainModel(ds, tf, tfFit, xtx, fitted, impl) ==
  IF Len(ds.x) = 0
  THEN \* const cols = X[0].length with X[0] undefined
       Throw("TypeError")
  ELSE IF tf
  THEN (IF tfFit = "ok"
        THEN [kind |-> "model", msg |-> "", type |-> "tf",
              infer |-> Closure(fitted, StdParams(ds)),
              samples |-> Len(ds.x), inv |-> <<>>, trainer |-> "tf", tfChecks |-> 1]
        ELSE [Throw(tfFit) EXCEPT !.trainer = "tf", !.tfChecks = 1])
  ELSE LET r == InvSym(xtx, impl)
       IN  IF r.kind = "throw"
           THEN [Throw(r.msg) EXCEPT !.inv = <<r>>, !.trainer = "lin", !.tfChecks = 1]
           ELSE [kind |-> "model", msg |-> "", type |-> "lin",
                 infer |-> Closure(fitted, StdParams(ds)),
                 samples |-> Len(ds.x), inv |-> <<r>>, trainer |-> "lin", tfChecks |-> 1]

(***************************************************************************)
(* _fetchVISeries                                                          *)
(*                                                                         *)
(* A date token of the dates service is a MODIS composite [y, doy]         *)
(* ('YYYY-DOY'), doy = 1, 17, ..., 353.                                    *)
(***************************************************************************)
\* Math.ceil((365/16)*years)
KeepCount(years) == (365 * years + (CompositeDays - 1)) \div CompositeDays

\* (datesJson?.dates || []).slice(-Math.ceil((365/16)*years))
Entries(dates, years) == SliceLast(dates, Min2(KeepCount(years), Len(dates)))

\* new Date(Date.UTC(year, 0, 1)): Date.UTC reads a year 0..99 as 1900 + year
UtcYear(year) == IF year \in 0..99 THEN 1900 + year ELSE year

\* _doyToDate(year, doy): d.setUTCDate(d.getUTCDate() + (doy - 1))
DoyToDateFromZero(year, doy) == SetUTCDate(Date(UtcYear(year), 1, 1), 1 + doy)
DoyToDate(year, doy) == SetUTCDate(Date(UtcYear(year), 1, 1), 1 + (doy - 1))

\* Utils.doyToDate(year, doy): d.setUTCDate(doy)
UtilsDoyToDate(year, doy) == SetUTCDate(Date(UtcYear(year), 1, 1), doy)

\* _toISO for a 'YYYY-DOY' token
ToISO(tok) == DoyToDate(tok.y, tok.doy)

\* raw == null || raw <= -9000 ? null : Number(raw) * 0.0001
ScaleVI(raw) == IF raw <= -9000 THEN Null ELSE Q(raw, 10000)

\* series.sort((a,b)=> (a.date < b.date ? -1 : 1)), on distinct dates
RECURSIVE InsertByDate(_, _)
InsertByDate(sorted, e) ==
  IF sorted = <<>> THEN <<e>>
  ELSE IF DateLt(e.date, Head(sorted).date) THEN <<e>> \o sorted
  ELSE <<Head(sorted)>> \o InsertByDate(Tail(sorted), e)
RECURSIVE SortByDate(_)
SortByDate(series) ==
  IF series = <<>> THEN <<>>
  ELSE InsertByDate(SortByDate(SubSeq(series, 1, Len(series) - 1)), series[Len(series)])

\* the loop over the entries: subsets[i] is what fetchSubset gave for entry
\* i, [kind |-> "ok", raw] or [kind |-> "throw"]; a thrown request and a
\* fill value are skipped
RECURSIVE Collect(_, _, _)
Collect(entries, subsets, i) ==
  IF i > Len(entries) THEN <<>>
  ELSE
    LET val == IF subsets[i].kind = "throw" THEN Null ELSE ScaleVI(subsets[i].raw)
    IN  (IF IsNull(val) THEN <<>> ELSE <<[date |-> ToISO(entries[i]), value |-> val]>>)
        \o Collect(entries, subsets, i + 1)

FetchedSeries(entries, subsets) == SortByDate(Collect(entries, subsets, 1))

(***************************************************************************)
(* run(): what it writes                                                   *)
(***************************************************************************)
\* stats.textContent: the kind of message, its error text, its sample count
St(kind, msg, n) == [kind |-> kind, msg |-> msg, n |-> n]

\* if (ds.x.length < 24)
InsufficientLe(ds) == Len(ds.x) <= MinSamples
Insufficient(ds) == Len(ds.x) < MinSamples

\* _plot(hist, fc, label): the two traces drawn into #fc-chart
Plot(hist, fc) == [drawn |-> TRUE, hist |-> hist, fc |-> fc]
Blank == [drawn |-> FALSE, hist |-> <<>>, fc |-> <<>>]

(***************************************************************************)
(* run(): the training configuration read from the page                    *)
(*                                                                         *)
(* The text of a field is a sequence of one-character strings.             *)
(***************************************************************************)
DigitChars == <<"0", "1", "2", "3", "4", "5", "6", "7", "8", "9">>
HexChars == DigitChars \o <<"a", "b", "c", "d", "e", "f">>
IsDigit(c, base) ==
  \E i \in 1..base : HexChars[i] = c
DigitVal(c) == (CHOOSE i \in 1..16 : HexChars[i] = c) - 1

\* parseInt and parseFloat skip leading white space
RECURSIVE TrimStart(_)
TrimStart(t) == IF t # <<>> /\ Head(t) = " " THEN TrimStart(Tail(t)) ELSE t

SignOf(t) == IF t # <<>> /\ Head(t) = "-" THEN -1 ELSE 1
AfterSign(t) == IF t # <<>> /\ Head(t) \in {"-", "+"} THEN Tail(t) ELSE t
HasPrefix(t, p) == Len(t) >= Len(p) /\ SubSeq(t, 1, Len(p)) = p

\* the longest prefix of digits of t: its value, its length, what follows
RECURSIVE TakeDigits(_, _, _, _)
TakeDigits(t, base, val, count) ==
  IF t # <<>> /\ IsDigit(Head(t), base)
  THEN TakeDigits(Tail(t), base, val * base + DigitVal(Head(t)), count + 1)
  ELSE [val |-> val, count |-> count, rest |-> t]

\* parseInt(text): radix 10, or 16 after a prefix 0x; NaN without a digit
ParseInt(text) ==
  LET t   == TrimStart(text)
      u   == AfterSign(t)
      hex == HasPrefix(u, <<"0", "x">>) \/ HasPrefix(u, <<"0", "X">>)
      r   == IF hex THEN TakeDigits(SubSeq(u, 3, Len(u)), 16, 0, 0)
             ELSE TakeDigits(u, 10, 0, 0)
  IN  IF r.count = 0 THEN NaN ELSE Num(SignOf(t) * r.val)

RECURSIVE Pow10(_)
Pow10(e) == IF e = 0 THEN 1 ELSE 10 * Pow10(e - 1)

\* the exponent part at the head of t, 0 if there is none
Exponent(t) ==
  IF t # <<>> /\ Head(t) \in {"e", "E"}
  THEN LET r == TakeDigits(AfterSign(Tail(t)), 10, 0, 0)
       IN  IF r.count = 0 THEN 0 ELSE SignOf(Tail(t)) * r.val
  ELSE 0

\* sign * m * 10^x.  A finite value of 1e4 or more is represented by the
\* infinity of its sign and a magnitude m * 10^x with x <= -9 by 0: both
\* lie beyond the bounds the value is clamped to.
Scaled(sign, m, x) ==
  IF m = 0 THEN Num(0)
  ELSE IF x >= 4 THEN [k |-> "inf", n |-> sign]
  ELSE IF x <= -9 THEN Num(0)
  ELSE IF x >= 0 THEN Num(sign * m * Pow10(x))
  ELSE Q(sign * m, Pow10(-x))

\* parseFloat(text): the longest prefix that is a decimal literal
ParseFloat(text) ==
  LET t == TrimStart(text)
      u == AfterSign(t)
  IN  IF HasPrefix(u, <<"I", "n", "f", "i", "n", "i", "t", "y">>)
      THEN [k |-> "inf", n |-> SignOf(t)]
      ELSE
        LET ip  == TakeDigits(u, 10, 0, 0)
            dot == ip.rest # <<>> /\ Head(ip.rest) = "."
            fp  == IF dot THEN TakeDigits(Tail(ip.rest), 10, 0, 0)
                   ELSE [val |-> 0, count |-> 0, rest |-> ip.rest]
        IN  IF ip.count + fp.count = 0 THEN NaN
            ELSE Scaled(SignOf(t), ip.val * Pow10(fp.count) + fp.val,
                        Exponent(fp.rest) - fp.count)

\* document.getElementById(id)?.value || dflt
OrDefault(value, dflt) == IF value = <<>> THEN dflt ELSE value

EpochsMin == 20
EpochsMax == 1000
DefaultEpochs == <<"1", "2", "0">>
DefaultLr == <<"0", ".", "0", "1">>
LrMin == Q(1, 1000)
LrMax == Q(1, 10)

\* lines 23-24: what run() passes to _trainModel as { epochs, lr }
Epochs(value) ==
  MathMax(Num(EpochsMin), MathMin(Num(EpochsMax), ParseInt(OrDefault(value, DefaultEpochs))))
Lr(value) == MathMax(LrMin, MathMin(LrMax, ParseFloat(OrDefault(value, DefaultLr))))
Config(fields) == [epochs |-> Epochs(fields.epochs), lr |-> Lr(fields.lr)]

(***************************************************************************)
(* State                                                                   *)
(***************************************************************************)
(* _toISO on the text of a date token, and _doy on the text it returns     *)
(*                                                                         *)
(* A text is a sequence of characters, as in the configuration.            *)
(***************************************************************************)
\* /^\d{4}-\d{3}$/.test(modisDate)
IsCompositeText(t) ==
  /\ Len(t) = 8
  /\ t[5] = "-"
  /\ \A i \in {1, 2, 3, 4, 6, 7, 8} : IsDigit(t[i], 10)

\* /^\d{4}-\d{2}-\d{2}$/.test(modisDate)
IsIsoText(t) ==
  /\ Len(t) = 10
  /\ t[5] = "-"
  /\ t[8] = "-"
  /\ \A i \in {1, 2, 3, 4, 6, 7, 9, 10} : IsDigit(t[i], 10)

\* Number(s) for a text of decimal digits
NumberOf(s) == TakeDigits(s, 10, 0, 0).val

\* String(n).padStart(w, '0') for 0 <= n < 10^w
RECURSIVE Pad(_, _)
Pad(n, w) == IF w = 0 THEN <<>> ELSE Append(Pad(n \div 10, w - 1), DigitChars[(n % 10) + 1])

\* d.toISOString().slice(0,10) for a year 0..9999
IsoText(dt) == Pad(dt.y, 4) \o <<"-">> \o Pad(dt.m, 2) \o <<"-">> \o Pad(dt.d, 2)

\* a text or null
Text(t) == [k |-> "text", text |-> t]
NoText == [k |-> "null", text |-> <<>>]

\* _toISO(modisDate); `utils` says whether window.Utils.doyToDate exists,
\* which only the copy of src/forecast.js asks
ToISOText(t, utils, impl) ==
  IF IsCompositeText(t)
  THEN LET y   == NumberOf(SubSeq(t, 1, 4))
           doy == NumberOf(SubSeq(t, 6, 8))
       IN  Text(IsoText(IF impl = "forecast.js" /\ utils THEN UtilsDoyToDate(y, doy)
                        ELSE DoyToDate(y, doy)))
  ELSE IF IsIsoText(t) THEN Text(t)
  ELSE NoText

\* new Date(iso+'T00:00:00Z') for a text of the form YYYY-MM-DD
ParseIso(t) ==
  Date(NumberOf(SubSeq(t, 1, 4)), NumberOf(SubSeq(t, 6, 7)), NumberOf(SubSeq(t, 9, 10)))
\* the text names a day of the calendar; new Date() of another text is invalid
IsCalendarText(t) ==
  LET dt == ParseIso(t)
  IN  dt.m \in 1..12 /\ dt.d >= 1 /\ dt.d <= DaysInMonth(dt.y, dt.m)

\* _doy(iso), NaN for an invalid Date
DoyOfText(t) == IF IsCalendarText(t) THEN Num(Doy(ParseIso(t))) ELSE NaN

(***************************************************************************)
VARIABLES
  fin,    \* _forecastNext30Days: its arguments [viSeries, wxByDate, model, impl]
  fst,    \* _forecastNext30Days: the state of its loop
  fpc,    \* _forecastNext30Days: "off", "call", "loop" or "done"
  din,    \* _buildDataset: its arguments [viSeries, wxByDate]
  dout,   \* _buildDataset: what it returned
  dpc,    \* _buildDataset: "off", "call" or "done"
  tin,    \* _trainModel: its arguments
  tout,   \* _trainModel: what it returned or threw
  tpc,    \* _trainModel: "off", "call" or "done"
  env,    \* the page: [impl, tf, collab] (which copy runs, window.tf,
          \* MapManager and VegetationManager present)
  stats,  \* #fc-stats textContent
  chart,  \* #fc-chart content
  rpc,    \* run(), per invocation slot: "idle", the await it is suspended
          \* at ("dates", "subsets", "weather", "train"), or "done"
  rloc,   \* run(), per invocation slot: its locals and what it has done
  rin,    \* run(), per invocation slot: what it was given so far, the years
          \* read from the page and then each response it awaited
  cin,    \* the configuration: the text of #fc-epochs and of #fc-lr
  cout,   \* the configuration: { epochs, lr } as passed to _trainModel
  cpc,    \* the configuration: "off", "read" or "done"
  kin,    \* _toISO: its argument and the page [text, utils, impl]
  kout,   \* _toISO: [iso, doy, pushed] what it returned, _doy of that, and
          \* whether _fetchVISeries pushed the observation
  kpc,    \* _toISO: "off", "call", "doy" or "done"
  zin,    \* the standardisation of one column: the column, as the decimal
          \* literals of its values
  zout,   \* the standardisation of one column: [m, s] of lines 195-196
  zpc,    \* the standardisation of one column: "off", "call" or "done"
  page    \* the forecast panel: its two buttons, the click listeners init()
          \* added to them, and what the last event did

fvars == <<fin, fst, fpc>>
dvars == <<din, dout, dpc>>
tvars == <<tin, tout, tpc>>
rvars == <<env, stats, chart, rpc, rloc, rin>>
cvars == <<cin, cout, cpc>>
kvars == <<kin, kout, kpc>>
zvars == <<zin, zout, zpc>>
bvars == <<page>>
vars ==
  <<fin, fst, fpc, din, dout, dpc, tin, tout, tpc, env, stats, chart, rpc, rloc, rin,
    cin, cout, cpc, kin, kout, kpc, zin, zout, zpc, page>>

\* what a step of one function leaves alone: the state of the others
FcFrame == UNCHANGED <<dvars, tvars, rvars, cvars, kvars, zvars, bvars>>
DsFrame == UNCHANGED <<fvars, tvars, rvars, cvars, kvars, zvars, bvars>>
TrFrame == UNCHANGED <<fvars, dvars, rvars, cvars, kvars, zvars, bvars>>
RunFrame == UNCHANGED <<fvars, dvars, tvars, cvars, kvars, zvars, bvars>>
CfgFrame == UNCHANGED <<fvars, dvars, tvars, rvars, kvars, zvars, bvars>>
TokFrame == UNCHANGED <<fvars, dvars, tvars, rvars, cvars, zvars, bvars>>
StdFrame == UNCHANGED <<fvars, dvars, tvars, rvars, cvars, kvars, bvars>>
BindFrame == UNCHANGED <<fvars, dvars, tvars, rvars, cvars, kvars, zvars>>

(***************************************************************************)
(* Bounds and inputs of the forecaster                                     *)
(***************************************************************************)
\* longest short observation history tried
MaxHist == 3
\* most keys of a short weather mapping
MaxWx == 2

\* an observation history of Len(vals) composites, 16 days apart, ending at
\* lastDate
Series(lastDate, vals) ==
  [i \in 1..Len(vals) |->
     [date  |-> AddDays(lastDate, -(CompositeDays * (Len(vals) - i))),
      value |-> vals[i]]]

\* the sequences over S of length lo..hi
SeqsOf(S, lo, hi) == UNION {[1..n -> S] : n \in lo..hi}

\* last historical dates: before a year end, in February of a leap year, of
\* a common year and of 2100, and before the end of a 30-day month
LastDates ==
  {Date(2023, 12, 15), Date(2024, 2, 10), Date(2023, 2, 10),
   Date(2100, 2, 20), Date(2024, 6, 20)}

HistVals == {Null, Q(1, 2), Q(9, 10)}

\* what infer may return: below the range, inside it, above it, not finite
InferOut == {Q(-1, 2), Q(1, 4), Q(3, 4), Q(3, 2), NaN, PosInf, NegInf}

PeriodicModels ==
  {[type |-> "periodic", a |-> a, b |-> b, std |-> NoStd] : a, b \in InferOut}
DriftModels ==
  {[type |-> "drift", a |-> a, b |-> a, std |-> NoStd] : a \in {Q(1, 4), Q(-1, 4)}}
Models == PeriodicModels \cup DriftModels

SomeModel == [type |-> "drift", a |-> Q(1, 4), b |-> Q(1, 4), std |-> NoStd]
NaNModel == [type |-> "periodic", a |-> NaN, b |-> Q(3, 2), std |-> NoStd]

\* a weather mapping with one key per date of the history
WxFor(series, ts, ps) ==
  [i \in 1..Len(ts) |-> [date |-> series[i].date, tMean |-> ts[i], pSum |-> ps[i]]]

TVals == {Null, Num(12), Num(20)}
PVals == {Null, Num(4), Num(8)}

\* complete weather for a history: tMean and pSum vary with the position
FullWx(series) ==
  [i \in 1..Len(series) |->
     [date |-> series[i].date, tMean |-> Num(10 + (i % 3)), pSum |-> Num(i % 4)]]

\* a history of n equal values with complete weather
LongVals(n) == [i \in 1..n |-> Q(1, 2)]

FcInput(series, wx, model, impl) ==
  [viSeries |-> series, wxByDate |-> wx, model |-> model, impl |-> impl]

\* every short history and last date, under two models
FcInputsDates ==
  {FcInput(Series(ld, vals), FullWx(Series(ld, vals)), m, "app.js") :
     ld \in LastDates, vals \in SeqsOf(HistVals, 1, MaxHist),
     m \in {SomeModel, NaNModel}}

\* every model, on two histories
FcInputsModels ==
  {FcInput(Series(Date(2023, 12, 15), vals), FullWx(Series(Date(2023, 12, 15), vals)),
           m, "forecast.js") :
     vals \in {<<Q(1, 2), Q(9, 10)>>, <<Null, Q(1, 2), Q(1, 2)>>}, m \in Models}

\* every short weather mapping, and a weather mapping of more than 30 keys,
\* under both copies of the code
FcInputsWx ==
  UNION {
    {FcInput(Series(Date(2024, 6, 20), LongVals(n)),
             WxFor(Series(Date(2024, 6, 20), LongVals(n)), ts, ps), SomeModel, impl) :
       ts \in [1..n -> TVals], ps \in [1..n -> PVals], impl \in Impls} : n \in 0..MaxWx}
  \cup
  {FcInput(Series(Date(2024, 6, 20), LongVals(WxWindow + 1)),
           FullWx(Series(Date(2024, 6, 20), LongVals(WxWindow + 1))), SomeModel, impl) :
     impl \in Impls}

\* _forecastNext30Days reads hist[hist.length-1].date: the history is not empty
FcInputs ==
  {x \in FcInputsDates \cup FcInputsModels \cup FcInputsWx : Len(x.viSeries) > 0}

NoFcInput == FcInput(<<>>, <<>>, SomeModel, "app.js")
NoFcState ==
  [tConst |-> Null, pConst |-> Null, hist |-> <<>>, given |-> <<>>, shared |-> FALSE,
   d |-> Date(0, 1, 1), i |-> 0,
   out |-> <<>>, feats |-> <<>>, raw |-> <<>>, reads |-> <<>>]

(***************************************************************************)
(* _forecastNext30Days as a state machine: the call, each pass of the      *)
(* loop, the return                                                        *)
(***************************************************************************)
FcOff == fin = NoFcInput /\ fst = NoFcState /\ fpc = "off"

FcInit ==
  /\ fin \in FcInputs
  /\ fst = NoFcState
  /\ fpc = "call"

\* lines 248-257: the proxies, the copy of the history, the start date
FcCall ==
  /\ fpc = "call"
  /\ fst' = ForecastStart(fin.viSeries, fin.wxByDate, fin.impl)
  /\ fpc' = "loop"
  /\ UNCHANGED fin
  /\ FcFrame

\* lines 259-281: one pass of the loop
FcStep ==
  /\ fpc = "loop"
  /\ fst.i <= Horizon
  /\ fst' = ForecastStep(fst, fin.model)
  /\ UNCHANGED <<fin, fpc>>
  /\ FcFrame

\* line 282: return out
FcReturn ==
  /\ fpc = "loop"
  /\ fst.i > Horizon
  /\ fpc' = "done"
  /\ UNCHANGED <<fin, fst>>
  /\ FcFrame

FcNext == FcCall \/ FcStep \/ FcReturn


(***************************************************************************)
(* _buildDataset as a state machine: the call and the return               *)
(***************************************************************************)
\* longest observation sequence given to _buildDataset on its own
MaxObs == 4

DsInput(series, wx) == [viSeries |-> series, wxByDate |-> wx]

\* the aggregate of one date: complete, without temperature, without
\* precipitation
WxShapes == {"full", "noT", "noP"}
WxEntry(date, i, shape) ==
  [date  |-> date,
   tMean |-> IF shape = "noT" THEN Null ELSE Num(10 + (i % 3)),
   pSum  |-> IF shape = "noP" THEN Null ELSE Num(i % 4)]

\* weather for a series: complete except, at position `at`, an aggregate of
\* shape `shape` or ("none") no key at all; at = 0 leaves it complete
WxWithHole(series, at, shape) ==
  LET idx == SelectSeq([i \in 1..Len(series) |-> i],
                       LAMBDA i : ~(i = at /\ shape = "none"))
  IN  [j \in 1..Len(idx) |->
         WxEntry(series[idx[j]].date, idx[j], IF idx[j] = at THEN shape ELSE "full")]

\* every observation sequence of up to MaxObs values, present or absent,
\* with weather that is complete or incomplete at one date
DsInputs ==
  UNION {
    {DsInput(Series(Date(2024, 1, 20), vals),
             WxWithHole(Series(Date(2024, 1, 20), vals), at, shape)) :
       vals \in [1..n -> HistVals], at \in 0..n, shape \in {"noT", "noP", "none"}} :
    n \in 0..MaxObs}

\* longest observation sequence with a single gap
MaxGapLen == 6

\* n values, absent at position g only
GapVals(n, g) == [i \in 1..n |-> IF i = g THEN Null ELSE Q(40 + 5 * (i % 4), 100)]

\* every sequence of 3..MaxGapLen observations with one absent value, at any
\* position, and complete weather
DsInputsGap ==
  UNION {
    {DsInput(Series(Date(2024, 1, 20), GapVals(n, g)),
             FullWx(Series(Date(2024, 1, 20), GapVals(n, g)))) : g \in 1..n} :
    n \in 3..MaxGapLen}

NoDataset == [x |-> <<>>, y |-> <<>>, idx |-> <<>>]

DsOff == din = DsInput(<<>>, <<>>) /\ dout = NoDataset /\ dpc = "off"

DsInit ==
  /\ din \in DsInputs \cup DsInputsGap
  /\ dout = NoDataset
  /\ dpc = "call"

\* lines 153-183
DsCall ==
  /\ dpc = "call"
  /\ dout' = BuildDataset(din.viSeries, din.wxByDate)
  /\ dpc' = "done"
  /\ UNCHANGED din
  /\ DsFrame

DsNext == DsCall

(***************************************************************************)
(* _trainModel as a state machine: the call and the return                 *)
(***************************************************************************)
Row2(a, b) == <<Num(a), Num(b)>>
Row3(a, b, c) == <<Num(a), Num(b), Num(c)>>

\* symmetric matrices for XtX: positive definite ones, ones that need a row
\* swap, singular ones (a zero matrix, a zero column as a constant feature
\* gives, equal rows), and a pivot of 1e-9, between the two epsilons
Matrices ==
  { <<<<Num(1)>>>>, <<<<Num(0)>>>>, <<<<Q(1, 1000000000)>>>>,
    <<Row2(2, 1), Row2(1, 2)>>, <<Row2(0, 0), Row2(0, 0)>>,
    <<Row2(1, 1), Row2(1, 1)>>, <<Row2(0, 1), Row2(1, 0)>>,
    <<Row2(4, 2), Row2(2, 1)>>,
    <<Row3(2, 1, 0), Row3(1, 2, 1), Row3(0, 1, 2)>>,
    <<Row3(1, 0, 0), Row3(0, 0, 0), Row3(0, 0, 1)>>,
    <<Row3(1, 2, 3), Row3(2, 4, 6), Row3(3, 6, 10)>> }

GoodMatrix == <<Row2(2, 1), Row2(1, 2)>>

\* every symmetric 2x2 and 3x3 matrix with a diagonal in 1..MaxCoef and the
\* other entries in -MaxCoef..MaxCoef
MaxCoef == 2
Diag == 1..MaxCoef
Off == (0 - MaxCoef)..MaxCoef
SymMatrices ==
  {<<Row2(a, b), Row2(b, c)>> : a \in Diag, b \in Off, c \in Diag}
  \cup
  UNION {{<<Row3(dg[1], b, c), Row3(b, dg[2], e), Row3(c, e, dg[3])>> :
            b \in Off, c \in Off, e \in Off} : dg \in Diag \X Diag \X Diag}

\* a history of n composites, all present, with complete weather
LongSeries(n) ==
  Series(Date(2024, 6, 9), [i \in 1..n |-> Q(40 + 5 * (i % 4), 100)])
DatasetOf(samples) ==
  IF samples = 0 THEN [x |-> <<>>, y |-> <<>>, idx |-> <<>>]
  ELSE BuildDataset(LongSeries(samples + 2), FullWx(LongSeries(samples + 2)))

\* dataset sizes around the least size run() accepts
TrainSizes == {0, 1, MinSamples - 1, MinSamples}

TrInput(ds, tf, tfFit, xtx, fitted, impl) ==
  [ds |-> ds, tf |-> tf, tfFit |-> tfFit, xtx |-> xtx, fitted |-> fitted, impl |-> impl]

TrInputs ==
  {TrInput(DatasetOf(n), TRUE, fit, GoodMatrix, m, impl) :
     n \in TrainSizes, fit \in {"ok", "tf error"}, m \in {SomeModel, NaNModel},
     impl \in Impls}
  \cup
  {TrInput(DatasetOf(n), FALSE, "ok", xtx, m, impl) :
     n \in TrainSizes, xtx \in Matrices, m \in {SomeModel, NaNModel}, impl \in Impls}
  \cup
  {TrInput(ds, FALSE, "ok", xtx, SomeModel, impl) :
     ds \in {DatasetOf(MinSamples)}, xtx \in SymMatrices, impl \in Impls}

NoTrInput == TrInput(NoDataset, FALSE, "ok", GoodMatrix, SomeModel, "app.js")
NoTrResult == Throw("")

TrOff == tin = NoTrInput /\ tout = NoTrResult /\ tpc = "off"

TrInit ==
  /\ tin \in TrInputs
  /\ tout = NoTrResult
  /\ tpc = "call"

\* lines 187-245
TrCall ==
  /\ tpc = "call"
  /\ tout' = TrainModel(tin.ds, tin.tf, tin.tfFit, tin.xtx, tin.fitted, tin.impl)
  /\ tpc' = "done"
  /\ UNCHANGED tin
  /\ TrFrame

TrNext == TrCall

(***************************************************************************)
(* run() and clear() as a state machine                                    *)
(*                                                                         *)
(* run() is an async function: each action below is the code between two   *)
(* awaits, taken when the awaited request or fit settles.                  *)
(***************************************************************************)
RunIds == {1, 2}

\* parseInt/clamp of #fc-years gives 1..8; the values tried
YearChoices == {1, 2}

\* the latest composite the dates service lists
LatestTok == [y |-> 2024, doy |-> 161]
PrevTok(t) ==
  IF t.doy > CompositeDays THEN [y |-> t.y, doy |-> t.doy - CompositeDays]
  ELSE [y |-> t.y - 1, doy |-> 353]
\* the n latest composites, ascending
RECURSIVE TokensBack(_, _)
TokensBack(t, n) == IF n = 0 THEN <<>> ELSE Append(TokensBack(PrevTok(t), n - 1), t)
AvailDates(n) == TokensBack(LatestTok, n)

\* how many dates the service lists: none, too few for a sample, and around
\* the MinSamples + 2 composites that 24 samples need
AvailCounts == {0, 2, MinSamples + 2, MinSamples + 3}

\* what fetchDates settles with
DatesOutcomesOf(counts) ==
  {[kind |-> "throw", msg |-> "RST dates 500", dates |-> <<>>]}
  \cup {[kind |-> "ok", msg |-> "", dates |-> AvailDates(n)] : n \in counts}
DatesOutcomes == DatesOutcomesOf(AvailCounts)

\* the band value of a composite
RawVI(tok) == 4000 + 500 * ((tok.doy \div CompositeDays) % 4)

\* what the fetchSubset calls settle with: all composites read, or one of
\* them (the first, the last) failing or holding the fill value
SubsetOutcomesOf(entries, hows) ==
  {[i \in 1..Len(entries) |->
      IF i = at /\ how = "throw" THEN [kind |-> "throw", raw |-> 0]
      ELSE IF i = at /\ how = "fill" THEN [kind |-> "ok", raw |-> -9999]
      ELSE [kind |-> "ok", raw |-> RawVI(entries[i])]] :
     at \in {0, 1, Len(entries)}, how \in hows}
SubsetOutcomes(entries) == SubsetOutcomesOf(entries, {"throw", "fill"})

\* what the POWER request settles with: an error, or daily values that are
\* complete or have a gap in temperature or in precipitation around the
\* fifth composite
WeatherOutcomesOf(viSeries, gaps) ==
  LET start == viSeries[1].date
      end   == viSeries[Len(viSeries)].date
      at    == viSeries[Min2(5, Len(viSeries))].date
  IN  {[kind |-> "throw", msg |-> "POWER error 500",
        raw |-> [start |-> start, end |-> end, gap |-> "",
                 gapStart |-> start, gapEnd |-> start]]}
      \cup {[kind |-> "ok", msg |-> "",
             raw |-> [start |-> start, end |-> end, gap |-> g,
                      gapStart |-> AddDays(at, -8), gapEnd |-> AddDays(at, 8)]] :
              g \in gaps}
WeatherOutcomes(viSeries) == WeatherOutcomesOf(viSeries, {"", "T", "P"})

\* what the fit settles with and what it fitted
TrainOutcomes(tf) ==
  IF tf
  THEN {[tfFit |-> "ok", xtx |-> GoodMatrix, fitted |-> m] : m \in {SomeModel, NaNModel}}
       \cup {[tfFit |-> "tf error", xtx |-> GoodMatrix, fitted |-> SomeModel]}
  ELSE {[tfFit |-> "ok", xtx |-> xtx, fitted |-> SomeModel] : xtx \in Matrices}
       \cup {[tfFit |-> "ok", xtx |-> GoodMatrix, fitted |-> NaNModel]}

NoCalls ==
  [dates |-> 0, subsets |-> 0, weather |-> 0, build |-> 0, train |-> 0,
   forecast |-> 0, plot |-> 0]

\* the locals of an invocation; `writes` lists the kinds of status it wrote,
\* `fetched` is the value of viSeries when _fetchVISeries returned it,
\* `plotHist` the history handed to _plot,
\* `raised` is the stage whose error reached run(), `thrown` the error its
\* catch received, `skipped` counts the subset errors _fetchVISeries
\* swallowed, `calls` counts the stages it entered, `began` the other
\* invocations that had begun when this one began
NewLoc(years) ==
  [years |-> years, entries |-> <<>>, viSeries |-> <<>>, wxByDate |-> <<>>,
   ds |-> NoDataset, model |-> NoTrResult, fc |-> <<>>, reads |-> <<>>,
   fetched |-> <<>>, plotHist |-> <<>>,
   outcome |-> "", began |-> 0,
   writes |-> <<>>, raised |-> "", thrown |-> "", skipped |-> 0, calls |-> NoCalls]

Envs ==
  {[impl |-> i, tf |-> t, collab |-> c] :
     i \in Impls, t \in BOOLEAN, c \in BOOLEAN}

RunOff ==
  /\ env = [impl |-> "app.js", tf |-> FALSE, collab |-> TRUE]
  /\ stats = St("initial", "", 0)
  /\ chart = Blank
  /\ rpc = [r \in RunIds |-> "idle"]
  /\ rloc = [r \in RunIds |-> NewLoc(1)]
  /\ rin = [r \in RunIds |-> <<>>]

\* the page after load; src/app.js defines its collaborators itself
RunInit ==
  /\ env \in {e \in Envs : e.impl = "app.js" => e.collab}
  /\ stats = St("initial", "", 0)
  /\ chart = Blank
  /\ rpc = [r \in RunIds |-> "idle"]
  /\ rloc = [r \in RunIds |-> NewLoc(1)]
  /\ rin = [r \in RunIds |-> <<>>]

\* the variables of invocation r: they are locals of run(), one set per call
LocalOfFirst(r) == rloc[1]
Local(r) == rloc[r]

\* catch (e) { stats.textContent = `Failed: ${e.message}` }
CatchAndDraw(r, loc, msg) ==
  /\ stats' = St("failed", msg, 0)
  /\ chart' = Plot(loc.viSeries, <<>>)
  /\ rpc' = [rpc EXCEPT ![r] = "done"]
  /\ rloc' = [rloc EXCEPT ![r] =
       [loc EXCEPT !.outcome = "failed", !.thrown = msg,
                   !.writes = Append(loc.writes, "failed")]]
CatchNoWrite(r, loc, msg) ==
  /\ rpc' = [rpc EXCEPT ![r] = "done"]
  /\ rloc' = [rloc EXCEPT ![r] = [loc EXCEPT !.outcome = "failed", !.thrown = msg]]
  /\ UNCHANGED <<stats, chart>>
Catch(r, loc, msg) ==
  /\ stats' = St("failed", msg, 0)
  /\ rpc' = [rpc EXCEPT ![r] = "done"]
  /\ rloc' = [rloc EXCEPT ![r] =
       [loc EXCEPT !.outcome = "failed", !.thrown = msg,
                   !.writes = Append(loc.writes, "failed")]]
  /\ UNCHANGED chart

\* the invocations other than r that have begun
Begun(r) == Cardinality({q \in RunIds \ {r} : rin[q] # <<>>})

\* a click on #fc-train: lines 19-36, to the await of fetchDates
RunStart(r) ==
  /\ rpc[r] \in {"idle", "done"}
  /\ \E years \in YearChoices :
       /\ IF env.impl = "forecast.js" /\ ~env.collab
          THEN \* alert(...); return
               /\ rpc' = [rpc EXCEPT ![r] = "done"]
               /\ rloc' = [rloc EXCEPT ![r] =
                    [NewLoc(years) EXCEPT !.outcome = "alert", !.began = Begun(r)]]
               /\ UNCHANGED stats
          ELSE /\ stats' = St("fetchingHistory", "", 0)
               /\ rpc' = [rpc EXCEPT ![r] = "dates"]
               /\ rloc' = [rloc EXCEPT ![r] =
                    [NewLoc(years) EXCEPT !.writes = <<"fetchingHistory">>,
                                          !.calls.dates = @ + 1,
                                          !.began = Begun(r)]]
       /\ rin' = [rin EXCEPT ![r] = <<years>>]
  /\ UNCHANGED <<env, chart>>
  /\ RunFrame

\* fetchDates settles: line 83-84, to the first await of fetchSubset
DatesDoneOn(r, counts) ==
  /\ rpc[r] = "dates"
  /\ \E res \in DatesOutcomesOf(counts) :
       /\ rin' = [rin EXCEPT ![r] = Append(@, res)]
       /\ IF res.kind = "throw"
          THEN Catch(r, [Local(r) EXCEPT !.raised = "dates"], res.msg)
          ELSE /\ rpc' = [rpc EXCEPT ![r] = "subsets"]
               /\ rloc' = [rloc EXCEPT ![r] =
                    [Local(r) EXCEPT !.entries = Entries(res.dates, Local(r).years),
                                     !.calls.subsets = @ + 1]]
               /\ UNCHANGED <<stats, chart>>
  /\ UNCHANGED env
  /\ RunFrame

\* the fetchSubset calls have settled: lines 87-100 and 37-44, to the await
\* of the POWER request
SubsetsDoneOn(r, hows) ==
  /\ rpc[r] = "subsets"
  /\ \E subsets \in SubsetOutcomesOf(Local(r).entries, hows) :
       /\ rin' = [rin EXCEPT ![r] = Append(@, subsets)]
       /\ LET series  == FetchedSeries(Local(r).entries, subsets)
              skipped == Cardinality({i \in 1..Len(subsets) : subsets[i].kind = "throw"})
              loc     == [Local(r) EXCEPT !.viSeries = series, !.fetched = series,
                                         !.skipped = skipped]
          IN  IF Len(series) = 0
              THEN /\ stats' = St("noHistory", "", 0)
                   /\ rpc' = [rpc EXCEPT ![r] = "done"]
                   /\ rloc' = [rloc EXCEPT ![r] =
                        [loc EXCEPT !.outcome = "nohistory",
                                    !.writes = Append(loc.writes, "noHistory")]]
              ELSE /\ stats' = St("fetchingWeather", "", 0)
                   /\ rpc' = [rpc EXCEPT ![r] = "weather"]
                   /\ rloc' = [rloc EXCEPT ![r] =
                        [loc EXCEPT !.writes = Append(loc.writes, "fetchingWeather"),
                                    !.calls.weather = @ + 1]]
  /\ UNCHANGED <<env, chart>>
  /\ RunFrame

\* the POWER request settles: lines 120-148 and 47-56, to the await of
\* _trainModel
WeatherDoneOn(r, gaps) ==
  /\ rpc[r] = "weather"
  /\ \E res \in WeatherOutcomesOf(Local(r).viSeries, gaps) :
       /\ rin' = [rin EXCEPT ![r] = Append(@, res)]
       /\ IF res.kind = "throw"
          THEN Catch(r, [Local(r) EXCEPT !.raised = "weather"], res.msg)
          ELSE
            \E wx \in {FetchWeatherByDate(Local(r).viSeries, res.raw)} :
            \E ds \in {BuildDataset(Local(r).viSeries, wx)} :
            \E loc \in {[Local(r) EXCEPT !.wxByDate = wx, !.ds = ds, !.calls.build = @ + 1]} :
                /\ IF Insufficient(ds)
                   THEN /\ stats' = St("insufficient", "", 0)
                        /\ rpc' = [rpc EXCEPT ![r] = "done"]
                        /\ rloc' = [rloc EXCEPT ![r] =
                             [loc EXCEPT !.outcome = "insufficient",
                                         !.writes = loc.writes \o <<"building", "insufficient">>]]
                   ELSE /\ stats' = St("training", IF env.tf THEN "tf" ELSE "lin", 0)
                        /\ rpc' = [rpc EXCEPT ![r] = "train"]
                        /\ rloc' = [rloc EXCEPT ![r] =
                             [loc EXCEPT !.writes = loc.writes \o <<"building", "training">>,
                                         !.calls.train = @ + 1]]
                /\ UNCHANGED chart
  /\ UNCHANGED env
  /\ RunFrame

\* _trainModel settles: lines 56-64
TrainDone(r) ==
  /\ rpc[r] = "train"
  /\ \E o \in TrainOutcomes(env.tf) :
       /\ rin' = [rin EXCEPT ![r] = Append(@, o)]
       /\ \E res \in {TrainModel(Local(r).ds, env.tf, o.tfFit, o.xtx, o.fitted, env.impl)} :
          \E loc \in {[Local(r) EXCEPT !.model = res]} :
              IF res.kind = "throw"
              THEN Catch(r, [loc EXCEPT !.raised = "train"], res.msg)
              ELSE
                \E fcs \in {ForecastNext30Days(loc.viSeries, loc.wxByDate, res.infer,
                                               env.impl)} :
                \E fc \in {fcs.out} :
                    /\ chart' = Plot(fcs.given, fc)
                    /\ stats' = St("done", "", Len(loc.ds.x))
                    /\ rpc' = [rpc EXCEPT ![r] = "done"]
                    /\ rloc' = [rloc EXCEPT ![r] =
                         [loc EXCEPT !.viSeries = fcs.given, !.plotHist = fcs.given,
                                     !.fc = fc, !.reads = fcs.reads, !.outcome = "done",
                                     !.writes = loc.writes \o <<"forecasting", "done">>,
                                     !.calls.forecast = @ + 1, !.calls.plot = @ + 1]]
  /\ UNCHANGED env
  /\ RunFrame

\* the steps with every outcome tried
DatesDone(r) == DatesDoneOn(r, AvailCounts)
SubsetsDone(r) == SubsetsDoneOn(r, {"throw", "fill"})
WeatherDone(r) == WeatherDoneOn(r, {"", "T", "P"})

\* a click on #fc-clear: lines 71-77
Clear ==
  /\ stats' = St("cleared", "", 0)
  /\ chart' = Blank
  /\ UNCHANGED <<env, rpc, rloc, rin>>
  /\ RunFrame

\* one invocation at a time
RunNext ==
  \/ RunStart(1)
  \/ DatesDone(1)
  \/ SubsetsDone(1)
  \/ WeatherDone(1)
  \/ TrainDone(1)
  \/ Clear

(***************************************************************************)
(* Two invocations of run(), interleaved at their awaits: two clicks on     *)
(* #fc-train (in src/forecast.js also one click after init() ran twice)     *)
(***************************************************************************)
ConcInit ==
  /\ env = [impl |-> "forecast.js", tf |-> TRUE, collab |-> TRUE]
  /\ stats = St("initial", "", 0)
  /\ chart = Blank
  /\ rpc = [r \in RunIds |-> "idle"]
  /\ rloc = [r \in RunIds |-> NewLoc(1)]
  /\ rin = [r \in RunIds |-> <<>>]

\* the first click for slot r
ConcStart(r) == rpc[r] = "idle" /\ RunStart(r)

\* the steps of slot r, with fewer outcomes tried: MinSamples + 2 dates
\* listed, a subset request failing, complete weather
ConcDates(r) == DatesDoneOn(r, {MinSamples + 2})
ConcSubsets(r) == SubsetsDoneOn(r, {"throw"})
ConcWeather(r) == WeatherDoneOn(r, {""})

ConcNext ==
  \E r \in RunIds :
    \/ ConcStart(r)
    \/ ConcDates(r)
    \/ ConcSubsets(r)
    \/ ConcWeather(r)
    \/ TrainDone(r)

(***************************************************************************)
(* The reading of the configuration as a state machine                     *)
(***************************************************************************)
\* longest text typed into a field
MaxText == 4

\* a digit, a high digit, the sign, the point, the exponent mark (also a
\* hexadecimal digit), a letter (also the mark of the prefix 0x)
CfgChars == {"1", "9", "-", ".", "e", "x"}

\* texts with a zero, with leading white space, beyond the upper bounds,
\* hexadecimal, and the name of infinity
ExtraTexts ==
  { <<"0", ".", "0", "5">>, <<" ", "5", "0">>, <<"5", "0", "0">>, <<"1", "0", "0", "1">>,
    <<"0", "x", "1", "e">>, <<"0">>, <<"-", "0", ".", "5">>,
    <<"I", "n", "f", "i", "n", "i", "t", "y">> }

Texts == SeqsOf(CfgChars, 0, MaxText) \cup ExtraTexts

\* each text in one field, the other field empty
CfgInputs ==
  {[epochs |-> t, lr |-> <<>>] : t \in Texts} \cup {[epochs |-> <<>>, lr |-> t] : t \in Texts}

NoConfig == [epochs |-> Null, lr |-> Null]

CfgOff == cin = [epochs |-> <<>>, lr |-> <<>>] /\ cout = NoConfig /\ cpc = "off"

CfgInit ==
  /\ cin \in CfgInputs
  /\ cout = NoConfig
  /\ cpc = "read"

\* lines 23-24 and 56
CfgRead ==
  /\ cpc = "read"
  /\ cout' = Config(cin)
  /\ cpc' = "done"
  /\ UNCHANGED cin
  /\ CfgFrame

CfgNext == CfgRead

(***************************************************************************)
(* _toISO and _doy as a state machine: the conversion of one token, the    *)
(* push of line 96, and the day of the year of the date                    *)
(***************************************************************************)
\* the years of the tokens: a two-digit year, century years that are and are
\* not leap years, leap and common years
TokYears == {50, 1900, 1999, 2000, 2023, 2024, 2100}
\* the greatest day-of-year field tried; the least is 0
MaxDoy == 367

CompositeTexts == {Pad(y, 4) \o <<"-">> \o Pad(d, 3) : y \in TokYears, d \in 0..MaxDoy}
IsoTexts ==
  {Pad(y, 4) \o <<"-">> \o Pad(md[1], 2) \o <<"-">> \o Pad(md[2], 2) :
     y \in TokYears, md \in {<<2, 29>>, <<3, 1>>, <<12, 31>>, <<13, 45>>}}
\* neither shape: a two-digit and a four-digit day, no separator, another
\* separator, a time after the date, the empty text
OtherTexts ==
  { <<"2", "0", "2", "4", "-", "6", "1">>, <<"2", "0", "2", "4", "-", "0", "0", "6", "1">>,
    <<"2", "0", "2", "4", "0", "6", "1">>, <<"2", "0", "2", "4", "/", "0", "6", "1">>,
    <<"2", "0", "2", "4", "-", "0", "3", "-", "0", "1", "T">>, <<>> }

TokInputs ==
  {[text |-> t, utils |-> u, impl |-> i] :
     t \in CompositeTexts \cup IsoTexts \cup OtherTexts, u \in BOOLEAN, i \in Impls}

NoTokInput == [text |-> <<>>, utils |-> FALSE, impl |-> "app.js"]
NoTokResult == [iso |-> NoText, doy |-> Null, pushed |-> FALSE]

TokOff == kin = NoTokInput /\ kout = NoTokResult /\ kpc = "off"

TokInit ==
  /\ kin \in TokInputs
  /\ kout = NoTokResult
  /\ kpc = "call"

\* lines 95-96: const iso = this._toISO(md); if (val != null && iso) push,
\* for a value that is present
TokConvert ==
  /\ kpc = "call"
  /\ \E iso \in {ToISOText(kin.text, kin.utils, kin.impl)} :
       /\ kout' = [kout EXCEPT !.iso = iso, !.pushed = (iso.k = "text")]
       /\ kpc' = IF iso.k = "text" THEN "doy" ELSE "done"
  /\ UNCHANGED kin
  /\ TokFrame

\* line 173: const doy = this._doy(d), for the date of a pushed observation
TokDoy ==
  /\ kpc = "doy"
  /\ kout' = [kout EXCEPT !.doy = DoyOfText(kout.iso.text)]
  /\ kpc' = "done"
  /\ UNCHANGED kin
  /\ TokFrame

TokNext == TokConvert \/ TokDoy

(***************************************************************************)
(* The standardisation of one column (lines 193-198, and 201-202 for the   *)
(* target) as a state machine: the call and the return                     *)
(***************************************************************************)
\* most rows of a column of equal values
MaxRows == 24

\* the values of a column: 0, values a double holds exactly (0.5, 10) and
\* values it does not (0.1, 0.45, 12.3)
StdVals == {Num(0), Q(1, 2), Q(1, 10), Q(9, 20), Num(10), Q(123, 10)}

\* columns of 1..MaxRows equal values, and every column of 2 or 3 values
StdInputs ==
  {[i \in 1..n |-> v] : n \in 1..MaxRows, v \in StdVals}
  \cup SeqsOf(StdVals, 2, 3)

NoColStd == [m |-> DZero, s |-> Null]

StdOff == zin = <<>> /\ zout = NoColStd /\ zpc = "off"

StdInit ==
  /\ zin \in StdInputs
  /\ zout = NoColStd
  /\ zpc = "call"

\* lines 194-197
StdCall ==
  /\ zpc = "call"
  /\ zout' = ColStd([i \in 1..Len(zin) |-> ToDouble(zin[i])])
  /\ zpc' = "done"
  /\ UNCHANGED zin
  /\ StdFrame

StdNext == StdCall

(***************************************************************************)
(* ForecastManager.init() and the clicks on the two buttons                *)
(***************************************************************************)
\* calls of init() (openings of the forecast panel) and clicks followed
MaxInits == 3
MaxClicks == 3

\* the panel before init(): trainBtn and clearBtn tell whether
\* getElementById finds #fc-train and #fc-clear, train and clear count the
\* click listeners on them, bound is this._bound, last is the last event,
\* started the calls of run() and cleared the calls of clear() it made
NewPage(impl, trainBtn, clearBtn) ==
  [impl |-> impl, trainBtn |-> trainBtn, clearBtn |-> clearBtn, bound |-> FALSE,
   train |-> 0, clear |-> 0, inits |-> 0, clicks |-> 0, last |-> "",
   started |-> 0, cleared |-> 0]

BindOff == page = NewPage("app.js", FALSE, FALSE)

BindInit ==
  page \in {NewPage(impl, t, c) : impl \in Impls, t \in BOOLEAN, c \in BOOLEAN}

\* if (btn) btn.addEventListener('click', () => this.run());
\* if (btnClear) btnClear.addEventListener('click', () => this.clear());
AddListeners(p) ==
  [p EXCEPT !.train = IF p.trainBtn THEN @ + 1 ELSE @,
            !.clear = IF p.clearBtn THEN @ + 1 ELSE @]

\* init(): src/app.js returns when this._bound is set and sets it
\* otherwise; src/forecast.js calls _bind() every time
Bind(p) ==
  IF p.impl = "app.js"
  THEN IF p.bound THEN p ELSE AddListeners([p EXCEPT !.bound = TRUE])
  ELSE AddListeners(p)

\* UIManager.initPanel('forecast'), or any other call of init()
BindCall ==
  /\ page.inits < MaxInits
  /\ page' = [Bind(page) EXCEPT !.inits = @ + 1, !.last = "init"]
  /\ BindFrame

\* a click on #fc-train: every listener on the button calls run()
ClickTrain ==
  /\ page.trainBtn
  /\ page.clicks < MaxClicks
  /\ page' = [page EXCEPT !.clicks = @ + 1, !.last = "train", !.started = page.train]
  /\ BindFrame

\* a click on #fc-clear: every listener on the button calls clear()
ClickClear ==
  /\ page.clearBtn
  /\ page.clicks < MaxClicks
  /\ page' = [page EXCEPT !.clicks = @ + 1, !.last = "clear", !.cleared = page.clear]
  /\ BindFrame

BindNext ==
  \/ BindCall
  \/ ClickTrain
  \/ ClickClear

(***************************************************************************)
(* Specifications: one function or handler at a time, the others off       *)
(***************************************************************************)
InitForecast == FcInit /\ DsOff /\ TrOff /\ RunOff /\ CfgOff /\ TokOff /\ StdOff /\ BindOff
SpecForecast == InitForecast /\ [][FcNext]_vars

InitDataset == DsInit /\ FcOff /\ TrOff /\ RunOff /\ CfgOff /\ TokOff /\ StdOff /\ BindOff
SpecDataset == InitDataset /\ [][DsNext]_vars

InitTrain == TrInit /\ FcOff /\ DsOff /\ RunOff /\ CfgOff /\ TokOff /\ StdOff /\ BindOff
SpecTrain == InitTrain /\ [][TrNext]_vars

InitRun == RunInit /\ FcOff /\ DsOff /\ TrOff /\ CfgOff /\ TokOff /\ StdOff /\ BindOff
SpecRun == InitRun /\ [][RunNext]_vars

\* the run in progress resumes after its await: the step DatesDone,
\* SubsetsDone, WeatherDone or TrainDone that moves it on
RunAdvance ==
  /\ rpc[1] \notin {"idle", "done"}
  /\ \E pc \in {"subsets", "weather", "train", "done"} :
       pc # rpc[1] /\ rpc' = [rpc EXCEPT ![1] = pc]

\* every awaited fetch and the training call complete or fail
SpecRunFair == InitRun /\ [][RunNext]_vars /\ WF_rpc(RunAdvance)

InitConc == ConcInit /\ FcOff /\ DsOff /\ TrOff /\ CfgOff /\ TokOff /\ StdOff /\ BindOff
SpecConc == InitConc /\ [][ConcNext]_vars

InitConfig == CfgInit /\ FcOff /\ DsOff /\ TrOff /\ RunOff /\ TokOff /\ StdOff /\ BindOff
SpecConfig == InitConfig /\ [][CfgNext]_vars

InitToken == TokInit /\ FcOff /\ DsOff /\ TrOff /\ RunOff /\ CfgOff /\ StdOff /\ BindOff
SpecToken == InitToken /\ [][TokNext]_vars

InitStd == StdInit /\ FcOff /\ DsOff /\ TrOff /\ RunOff /\ CfgOff /\ TokOff /\ BindOff
SpecStd == InitStd /\ [][StdNext]_vars

InitBind ==
  BindInit /\ FcOff /\ DsOff /\ TrOff /\ RunOff /\ CfgOff /\ TokOff /\ StdOff
SpecBind == InitBind /\ [][BindNext]_vars

(***************************************************************************)
(* Properties of _forecastNext30Days (SpecForecast)                        *)
(***************************************************************************)
\* the calendar, counted independently of the Date methods: the number of
\* the day dt in a count of all days
CumDays == <<0, 31, 59, 90, 120, 151, 181, 212, 243, 273, 304, 334>>
LeapYear(y) == y % 400 = 0 \/ (y % 4 = 0 /\ y % 100 # 0)
DayNum(dt) ==
  365 * dt.y + ((dt.y - 1) \div 4) - ((dt.y - 1) \div 100) + ((dt.y - 1) \div 400)
  + CumDays[dt.m] + (IF dt.m > 2 /\ LeapYear(dt.y) THEN 1 ELSE 0) + dt.d
ValidDate(dt) ==
  /\ dt.m \in 1..12
  /\ dt.d >= 1
  /\ dt.d <= (IF dt.m = 2 THEN (IF LeapYear(dt.y) THEN 29 ELSE 28)
              ELSE IF dt.m \in {4, 6, 9, 11} THEN 30 ELSE 31)

FcRunning == fpc \in {"loop", "done"}
LastHistDate == fin.viSeries[Len(fin.viSeries)].date
InRange(v) == v.k = "num" /\ 10 * v.n >= -v.d /\ v.n <= v.d

\* C1: _forecastNext30Days returns exactly 30 points, and point k is dated
\* k days after the last historical date: a valid calendar date, none
\* skipped, none repeated, across month and year ends, stalled step or not.
C1_ConsecutiveDates ==
  FcRunning =>
    /\ Len(fst.out) <= Horizon
    /\ (fpc = "done" => Len(fst.out) = Horizon)
    /\ \A k \in 1..Len(fst.out) :
         /\ ValidDate(fst.out[k].date)
         /\ DayNum(fst.out[k].date) = DayNum(LastHistDate) + k

\* C1 witness: a returned forecast that crosses the end of 2023 and in
\* which steps stalled
C1_Witness ==
  /\ fpc = "done"
  /\ Len(fst.out) = Horizon
  /\ LastHistDate = Date(2023, 12, 15)
  /\ fst.out[Horizon].date = Date(2024, 1, 14)
  /\ IsNull(fst.out[1].value)

\* C2 (as claimed): whatever infer returns, every emitted value that is not
\* absent lies in [-0.1, 1.0].
C2_EmittedInRange ==
  FcRunning =>
    \A k \in 1..Len(fst.out) :
      ~IsNull(fst.out[k].value) => InRange(fst.out[k].value)

\* C3 (as claimed): the entries appended to the rolling history are exactly
\* the emitted points with a value, in order, each carrying a clamped value
\* in [-0.1, 1.0]; an infer output outside the range is never stored.
C3_HistoryClamped ==
  FcRunning =>
    LET n0       == Len(fin.viSeries)
        appended == SubSeq(fst.hist, n0 + 1, Len(fst.hist))
        emitted  == SelectSeq(fst.out, LAMBDA p : ~IsNull(p.value))
    IN  /\ SubSeq(fst.hist, 1, n0) = fin.viSeries
        /\ appended = emitted
        /\ \A j \in 1..Len(appended) : InRange(appended[j].value)
        /\ \A k \in 1..Len(fst.out) :
             (~IsNull(fst.raw[k]) /\ ~InRange(fst.raw[k]))
               => \A j \in 1..Len(appended) :
                    appended[j].date = fst.out[k].date => appended[j].value # fst.raw[k]

LastTwoPresent ==
  /\ Len(fin.viSeries) >= 2
  /\ ~IsNull(fin.viSeries[Len(fin.viSeries)].value)
  /\ ~IsNull(fin.viSeries[Len(fin.viSeries) - 1].value)

\* C4: when the last two entries of the input history have values, no
\* forecast point is absent.
C4_NoAbsentPoint ==
  (FcRunning /\ LastTwoPresent) =>
    \A k \in 1..Len(fst.out) : ~IsNull(fst.out[k].value)

\* C4 witness: a returned forecast of 30 present values from a history whose
\* last two values are present and whose first is absent
C4_Witness ==
  /\ fpc = "done"
  /\ LastTwoPresent
  /\ Len(fin.viSeries) = 3
  /\ IsNull(fin.viSeries[1].value)
  /\ Len(fst.out) = Horizon
  /\ \A k \in 1..Horizon : ~IsNull(fst.out[k].value)

\* the proxies as the claim states them, over the most recent
\* min(30, available) dates of the mapping
C9Recent == {i \in 1..Len(fin.wxByDate) : i > Len(fin.wxByDate) - 30}
C9TIdx == {i \in C9Recent : ~IsNull(fin.wxByDate[i].tMean)}
C9PIdx == {i \in C9Recent : ~IsNull(fin.wxByDate[i].pSum)}
RECURSIVE C9SumT(_)
C9SumT(S) ==
  IF S = {} THEN Num(0)
  ELSE LET i == CHOOSE x \in S : TRUE
       IN  Add(fin.wxByDate[i].tMean, C9SumT(S \ {i}))
RECURSIVE C9SumP(_)
C9SumP(S) ==
  IF S = {} THEN Num(0)
  ELSE LET i == CHOOSE x \in S : TRUE
       IN  Add(fin.wxByDate[i].pSum, C9SumP(S \ {i}))
C9MeanTemperature ==
  IF C9TIdx = {} THEN Num(10) ELSE DivCount(C9SumT(C9TIdx), Cardinality(C9TIdx))
C9TotalPrecipitation ==
  IF C9PIdx = {} THEN Num(10) ELSE C9SumP(C9PIdx)

\* C9 (as claimed): at every step that builds a feature vector, its
\* temperature entry is the mean of the present mean temperatures and its
\* precipitation entry is the sum of the present precipitation totals of the
\* most recent min(30, available) dates, 10 where there is none.
C9_Proxies ==
  FcRunning =>
    /\ fst.tConst = C9MeanTemperature
    /\ fst.pConst = C9TotalPrecipitation
    /\ \A k \in 1..Len(fst.feats) :
         fst.feats[k] # <<>> =>
           /\ fst.feats[k][6] = C9MeanTemperature
           /\ fst.feats[k][7] = C9TotalPrecipitation

\* C9 in the copy of src/app.js, where pConst is the sum
C9_ProxiesInApp == fin.impl = "app.js" => C9_Proxies

\* the other copy of the code, and what its _forecastNext30Days returns on
\* the input of this run
C30Other == IF fin.impl = "app.js" THEN "forecast.js" ELSE "app.js"
C30OtherRun == ForecastNext30Days(fin.viSeries, fin.wxByDate, fin.model, C30Other)

\* C30 (as claimed): on the same history, weather mapping and model the
\* two copies of _forecastNext30Days build the same feature vectors,
\* proxies included, and return the same 30 points.
C30_CopiesEquivalent ==
  fpc = "done" =>
    /\ C30OtherRun.tConst = fst.tConst
    /\ C30OtherRun.pConst = fst.pConst
    /\ C30OtherRun.feats = fst.feats
    /\ C30OtherRun.out = fst.out

\* what holds instead: the copies agree on the dates, on the temperature
\* proxy and on which steps stall, and on everything when their
\* precipitation proxies coincide
C30_EquivalentButPrecipitation ==
  fpc = "done" =>
    /\ C30OtherRun.tConst = fst.tConst
    /\ Len(C30OtherRun.out) = Len(fst.out)
    /\ \A k \in 1..Len(fst.out) :
         /\ C30OtherRun.out[k].date = fst.out[k].date
         /\ IsNull(C30OtherRun.out[k].value) <=> IsNull(fst.out[k].value)
    /\ C30OtherRun.pConst = fst.pConst =>
         C30OtherRun.feats = fst.feats /\ C30OtherRun.out = fst.out

\* step k called the model
C18Success(k) == fst.feats[k] # <<>>
\* the values of the rolling history after step k: the input history and
\* the values emitted by the steps 1..k
C18Rolling(k) ==
  [i \in 1..Len(fin.viSeries) |-> fin.viSeries[i].value]
  \o [j \in 1..k |-> fst.out[j].value]
\* the positions of the last three entries of a sequence that are not absent
C18Last3(vals) == {i \in 1..Len(vals) : i > Len(vals) - 3 /\ ~IsNull(vals[i])}
RECURSIVE C18Sum(_, _)
C18Sum(vals, S) ==
  IF S = {} THEN Num(0)
  ELSE LET i == CHOOSE x \in S : TRUE
       IN  Add(vals[i], C18Sum(vals, S \ {i}))
C18Mean(vals) == DivCount(C18Sum(vals, C18Last3(vals)), Cardinality(C18Last3(vals)))

\* C18: after a step k that called the model, step k+1 calls the model too,
\* with lag1 the value emitted at step k, lag2 the value that was last in
\* the rolling history before step k (the value emitted at step k-1, or the
\* last historical value when k = 1), and the rolling mean the mean of the
\* values that are not absent among the last three entries of the rolling
\* history, emitted values included.
C18_FeedbackChain ==
  FcRunning =>
    \A k \in 1..(Len(fst.out) - 1) :
      C18Success(k) =>
        /\ C18Success(k + 1)
        /\ fst.feats[k + 1][1] = fst.out[k].value
        /\ fst.feats[k + 1][2] = (IF k = 1 THEN fin.viSeries[Len(fin.viSeries)].value
                                  ELSE fst.out[k - 1].value)
        /\ fst.feats[k + 1][3] = C18Mean(C18Rolling(k))

\* C18 witness: from the history 0.5, 0.9 the model "lag1 - 0.25" emits
\* 0.65 and 0.4, and step 3 is called with lag1 = 0.4, lag2 = 0.65 and the
\* rolling mean (0.9 + 0.65 + 0.4) / 3 = 0.65
C18_Witness ==
  /\ fpc = "done"
  /\ Len(fin.viSeries) = 2
  /\ fin.viSeries[1].value = Q(1, 2)
  /\ fin.viSeries[2].value = Q(9, 10)
  /\ fst.out[1].value = Q(13, 20)
  /\ fst.out[2].value = Q(2, 5)
  /\ C18Success(3)
  /\ fst.feats[3][1] = Q(2, 5)
  /\ fst.feats[3][2] = Q(13, 20)
  /\ fst.feats[3][3] = Q(13, 20)

\* the rolling history lacks an input of the next step: its last value, the
\* one before it, or every one of its last three values
C19Value(i) == IF i >= 1 THEN fst.hist[i].value ELSE Null
C19Lacking ==
  LET n == Len(fst.hist)
  IN  \/ IsNull(C19Value(n))
      \/ IsNull(C19Value(n - 1))
      \/ \A i \in {n - 2, n - 1, n} : IsNull(C19Value(i))
C19NextDay == AddDays(LastHistDate, fst.i)

\* C19: a step of the loop taken when lag1, lag2 or the rolling mean is
\* absent emits a point with an absent value for the next date, does not
\* call the model, appends nothing to the rolling history, and leaves the
\* loop running with the next date.
C19_StallEmitsAbsent ==
  [][(fpc = "loop" /\ fst.i <= Horizon /\ C19Lacking) =>
       /\ fst'.out = Append(fst.out, [date |-> C19NextDay, value |-> Null])
       /\ fst'.hist = fst.hist
       /\ fst'.reads = fst.reads
       /\ fst'.feats = Append(fst.feats, <<>>)
       /\ fst'.raw = Append(fst.raw, Null)
       /\ fst'.i = fst.i + 1
       /\ fst'.d = C19NextDay
       /\ fpc' = "loop"]_vars

\* C19 witness: the loop has returned 30 points after stalled steps on a
\* history of two values whose last is absent; the model was never called
\* and the history is as it was given
C19_Witness ==
  /\ fpc = "done"
  /\ Len(fin.viSeries) = 2
  /\ ~IsNull(fin.viSeries[1].value)
  /\ IsNull(fin.viSeries[2].value)
  /\ Len(fst.out) = Horizon
  /\ IsNull(fst.out[Horizon].value)
  /\ fst.reads = <<>>
  /\ fst.hist = fin.viSeries

\* C20 (as claimed): a stalled step makes only its own day's point absent:
\* when the point of one day is absent, the points of the other days are
\* not.
C20_StallLocalized ==
  FcRunning =>
    \A j, k \in 1..Len(fst.out) :
      (IsNull(fst.out[j].value) /\ j # k) => ~IsNull(fst.out[k].value)

\* what the code does: a stalled step changes nothing the next step reads,
\* so the points are all absent or all present
C20_AllOrNothing ==
  FcRunning =>
    \/ \A k \in 1..Len(fst.out) : IsNull(fst.out[k].value)
    \/ \A k \in 1..Len(fst.out) : ~IsNull(fst.out[k].value)

(***************************************************************************)
(* Properties of _buildDataset (SpecDataset)                               *)
(***************************************************************************)
\* the aggregate stored under the date of position i, if any
C10Wx(i) == {w \in {din.wxByDate[j] : j \in 1..Len(din.wxByDate)} :
               w.date = din.viSeries[i].date}
\* position i (counted from 1) has all its required fields
C10Complete(i) ==
  /\ i >= 3
  /\ \A j \in {i - 2, i - 1, i} : din.viSeries[j].value.k # "null"
  /\ \E w \in C10Wx(i) : w.tMean.k # "null" /\ w.pSum.k # "null"
C10Third(a, b, c) == Q(a.n * b.d * c.d + b.n * a.d * c.d + c.n * a.d * b.d, 3 * a.d * b.d * c.d)

\* C10: every sample of _buildDataset has a feature vector of exactly 7
\* entries in the fixed order (lag1, lag2, rolling mean, sin, cos, mean
\* temperature, total precipitation), no entry and no target is absent, the
\* two lists have equal length, and the samples are exactly those of the
\* positions whose required fields are all present, with the values as
\* observed (nothing imputed).
C10_SamplesWellFormed ==
  dpc = "done" =>
    /\ Len(dout.x) = Len(dout.y)
    /\ Len(dout.idx) = Len(dout.x)
    /\ {dout.idx[s] : s \in 1..Len(dout.idx)} =
         {i \in 1..Len(din.viSeries) : C10Complete(i)}
    /\ \A s \in 1..Len(dout.x) :
         LET i == dout.idx[s]
             f == dout.x[s]
         IN  /\ Len(f) = 7
             /\ \A c \in 1..7 : f[c].k # "null"
             /\ dout.y[s].k # "null"
             /\ dout.y[s] = din.viSeries[i].value
             /\ f[1] = din.viSeries[i - 1].value
             /\ f[2] = din.viSeries[i - 2].value
             /\ f[3] = C10Third(din.viSeries[i].value, din.viSeries[i - 1].value,
                                din.viSeries[i - 2].value)
             /\ f[4].k = "sin" /\ f[5].k = "cos"
             /\ \E w \in C10Wx(i) : f[6] = w.tMean /\ f[7] = w.pSum

\* C10 witness: a sequence of four observations, all present, whose last
\* date has no total precipitation: one sample, built at the third position
C10_Witness ==
  /\ dpc = "done"
  /\ Len(din.viSeries) = 4
  /\ \A i \in 1..4 : ~IsNull(din.viSeries[i].value)
  /\ \E w \in C10Wx(4) : IsNull(w.pSum)
  /\ dout.idx = <<3>>
  /\ Len(dout.x) = 1

\* the input has complete weather and exactly one absent value, at the
\* middle position g (counted from 1)
C11OneGap(g) ==
  /\ g \in 2..(Len(din.viSeries) - 1)
  /\ \A i \in 1..Len(din.viSeries) :
       /\ (din.viSeries[i].value.k = "null") <=> (i = g)
       /\ \E w \in C10Wx(i) : w.tMean.k # "null" /\ w.pSum.k # "null"
\* the sample positions whose target, lag1 or lag2 is the gap; these are the
\* positions whose rolling window holds the gap
C11Affected(g) == {i \in 3..Len(din.viSeries) : g \in {i - 2, i - 1, i}}

\* C11: for a sequence of n observations with complete weather and one
\* absent value at a middle position g, _buildDataset leaves out exactly the
\* samples of the gap-affected positions and emits n - 2 - (their number)
\* samples.
C11_GapExclusion ==
  dpc = "done" =>
    \A g \in 1..Len(din.viSeries) :
      C11OneGap(g) =>
        /\ {dout.idx[s] : s \in 1..Len(dout.idx)} =
             (3..Len(din.viSeries)) \ C11Affected(g)
        /\ Len(dout.x) = Len(din.viSeries) - 2 - Cardinality(C11Affected(g))
        /\ Len(dout.y) = Len(dout.x)

\* C11 witness: six observations, the second absent: positions 3 and 4 are
\* affected, the samples are those of positions 5 and 6
C11_Witness ==
  /\ dpc = "done"
  /\ Len(din.viSeries) = 6
  /\ C11OneGap(2)
  /\ dout.idx = <<5, 6>>
  /\ Len(dout.x) = 2

\* the sample built at index i of a dataset, or none
C21Sample(ds, i) ==
  LET ks == {k \in 1..Len(ds.idx) : ds.idx[k] = i}
  IN  IF ks = {} THEN <<>>
      ELSE LET k == CHOOSE q \in ks : TRUE IN <<ds.x[k], ds.y[k]>>
\* the observation sequence with the value at index j replaced by v
C21Changed(j, v) == [din.viSeries EXCEPT ![j].value = v]

\* C21: no sample is built at the first two indices, the samples follow the
\* input order, and replacing the value of an observation at an index j by
\* any other value, absent or present, leaves the sample of every index
\* before j as it was: built with the same features and target, or skipped.
C21_NoLookAhead ==
  dpc = "done" =>
    /\ \A k \in 1..Len(dout.idx) : dout.idx[k] >= 3
    /\ \A k \in 1..(Len(dout.idx) - 1) : dout.idx[k] < dout.idx[k + 1]
    /\ \A j \in 1..Len(din.viSeries) : \A v \in HistVals :
         \A i \in 1..(j - 1) :
           C21Sample(BuildDataset(C21Changed(j, v), din.wxByDate), i)
             = C21Sample(dout, i)

\* C21 witness: four observations with complete weather, the last one
\* absent: the sample of the third is built, from the first three values
C21_Witness ==
  /\ dpc = "done"
  /\ Len(din.viSeries) = 4
  /\ IsNull(din.viSeries[4].value)
  /\ dout.idx = <<3>>
  /\ dout.x[1][1] = din.viSeries[2].value
  /\ dout.x[1][2] = din.viSeries[1].value
  /\ dout.y[1] = din.viSeries[3].value
  /\ din.viSeries[3].value # din.viSeries[2].value

(***************************************************************************)
(* Properties of _trainModel (SpecTrain)                                   *)
(***************************************************************************)
\* C6 (as claimed): _trainModel, called with a dataset of fewer than 24
\* samples, fails with an insufficient-data condition and returns no model.
C6_TrainerRejectsSmall ==
  (tpc = "done" /\ Len(tin.ds.x) < MinSamples) =>
    /\ tout.kind = "throw"
    /\ tout.msg = "Insufficient samples for training."

\* C15: a call of _trainModel (on a dataset with a sample) tests the
\* presence of the backend once and runs the trainer that test selects.
\* With the backend present it fits the neural model and returns it (an
\* error of the fit is thrown as it is, the linear fit is not attempted);
\* with the backend absent it fits the linear model and returns it, and the
\* only error it can end in is the singular-matrix error of the inversion,
\* never one about the backend.
C15_TrainerByBackend ==
  (tpc = "done" /\ Len(tin.ds.x) > 0) =>
    /\ tout.tfChecks = 1
    /\ tin.tf =>
         /\ tout.trainer = "tf"
         /\ tout.inv = <<>>
         /\ IF tin.tfFit = "ok"
            THEN tout.kind = "model" /\ tout.type = "tf"
            ELSE tout.kind = "throw" /\ tout.msg = tin.tfFit
    /\ ~tin.tf =>
         /\ tout.trainer = "lin"
         /\ Len(tout.inv) = 1
         /\ IF tout.inv[1].kind = "matrix"
            THEN tout.kind = "model" /\ tout.type = "lin"
            ELSE /\ tout.kind = "throw"
                 /\ tout.msg \in {"Singular matrix", "Singular"}

\* C15 witness: the backend absent, 24 samples, a matrix that needs a row
\* swap: the linear model is returned
C15_Witness ==
  /\ tpc = "done"
  /\ ~tin.tf
  /\ Len(tin.ds.x) = 24
  /\ tin.xtx = <<Row2(0, 1), Row2(1, 0)>>
  /\ tout.kind = "model"
  /\ tout.type = "lin"

\* positive definite, for a symmetric matrix of 1 to 3 rows: the leading
\* principal minors are positive
C17Det2(M) == M[1][1].n * M[2][2].n - M[1][2].n * M[2][1].n
C17Det3(M) ==
    M[1][1].n * (M[2][2].n * M[3][3].n - M[2][3].n * M[3][2].n)
  - M[1][2].n * (M[2][1].n * M[3][3].n - M[2][3].n * M[3][1].n)
  + M[1][3].n * (M[2][1].n * M[3][2].n - M[2][2].n * M[3][1].n)
C17Integer(M) == \A i \in 1..Len(M) : \A j \in 1..Len(M) : M[i][j].d = 1
C17PosDef(M) ==
  /\ C17Integer(M)
  /\ M[1][1].n > 0
  /\ Len(M) >= 2 => C17Det2(M) > 0
  /\ Len(M) >= 3 => C17Det3(M) > 0
C17Zero2 == <<Row2(0, 0), Row2(0, 0)>>

ThisRun == rloc[1]
LastWrite(loc) == IF loc.writes = <<>> THEN "" ELSE loc.writes[Len(loc.writes)]

\* C5: once run() has built its dataset, it enters _trainModel exactly when
\* the dataset has at least 24 samples; with fewer (23, or none because the
\* history has fewer than 3 observations) it ends in the insufficient-data
\* outcome, having entered neither _trainModel nor _forecastNext30Days nor
\* _plot, and with 24 or more it enters training.
C5_TrainsOnlyFrom24 ==
  /\ ThisRun.calls.build = 1 =>
       IF Len(ThisRun.ds.x) < 24
       THEN /\ rpc[1] = "done"
            /\ ThisRun.outcome = "insufficient"
            /\ LastWrite(ThisRun) = "insufficient"
            /\ ThisRun.calls.train = 0
            /\ ThisRun.calls.forecast = 0
            /\ ThisRun.calls.plot = 0
            /\ ThisRun.model = NoTrResult
            /\ ThisRun.fc = <<>>
       ELSE /\ ThisRun.calls.train = 1
            /\ ThisRun.outcome # "insufficient"
  /\ ThisRun.calls.train > 0 =>
       /\ ThisRun.calls.build = 1
       /\ Len(ThisRun.ds.x) >= 24

\* C5 witness: a run that built exactly 23 samples from a history of 25
\* composites and ended in the insufficient-data outcome
C5_Witness ==
  /\ rpc[1] = "done"
  /\ Len(ThisRun.viSeries) = 25
  /\ Len(ThisRun.ds.x) = 23
  /\ ThisRun.outcome = "insufficient"
  /\ ThisRun.calls.train = 0

\* the pivot magnitude p is below the epsilon of the copy that runs: 1e-8 in
\* src/forecast.js, 1e-10 in src/app.js (no nonzero pivot of the matrices
\* tried is below 1e-10)
C7Tiny(p) ==
  \/ p.n = 0
  \/ env.impl = "forecast.js" /\ (p.d - 1) \div p.n >= 100000000
\* the inversions the run made, and the pivots of the first
C7Inversions == ThisRun.model.inv
C7Pivots == C7Inversions[1].pivots

\* C7: when the inversion of the linear fit meets, at some elimination step,
\* a largest pivot magnitude below the epsilon, _invSym throws its singular
\* error and returns no matrix; _trainModel returns no model; the run ends
\* failed with that error, with no forecast and no plot, after one inversion
\* and one entry into _trainModel.  An inversion that meets no such pivot
\* returns a matrix.
C7_SingularEndsRun ==
  C7Inversions # <<>> =>
    /\ Len(C7Inversions) = 1
    /\ Len(C7Pivots) >= 1
    /\ \A j \in 1..(Len(C7Pivots) - 1) : ~C7Tiny(C7Pivots[j])
    /\ IF C7Tiny(C7Pivots[Len(C7Pivots)])
       THEN /\ C7Inversions[1].kind = "throw"
            /\ C7Inversions[1].I = <<>>
            /\ C7Inversions[1].msg \in {"Singular matrix", "Singular"}
            /\ ThisRun.model.kind = "throw"
            /\ ThisRun.model.infer = Null
            /\ rpc[1] = "done"
            /\ ThisRun.outcome = "failed"
            /\ ThisRun.thrown = C7Inversions[1].msg
            /\ LastWrite(ThisRun) = "failed"
            /\ ThisRun.fc = <<>>
            /\ ThisRun.calls.forecast = 0
            /\ ThisRun.calls.plot = 0
            /\ ThisRun.calls.train = 1
       ELSE /\ C7Inversions[1].kind = "matrix"
            /\ Len(C7Pivots) = Len(C7Inversions[1].I)
            /\ ThisRun.model.kind = "model"

\* C7 witness: a run of src/forecast.js with a chart of an earlier run on
\* the page, failed by a pivot of 1e-9 or by a zero pivot met at the second
\* elimination step
C7_Witness ==
  /\ env.impl = "forecast.js"
  /\ chart.drawn
  /\ ThisRun.outcome = "failed"
  /\ C7Inversions # <<>>
  /\ C7Tiny(C7Pivots[Len(C7Pivots)])
  /\ \/ C7Pivots[Len(C7Pivots)].n # 0
     \/ Len(C7Pivots) = 2

\* an error has occurred in the run: a request it made failed, or a stage
\* threw
C8ErrorSeen == ThisRun.skipped > 0 \/ ThisRun.raised # ""
\* the run has ended failed: its last status is the failure string, it has
\* no forecast, it entered neither _forecastNext30Days nor _plot, and it
\* entered no stage twice
C8Aborted ==
  /\ rpc[1] = "done"
  /\ ThisRun.outcome = "failed"
  /\ LastWrite(ThisRun) = "failed"
  /\ ThisRun.thrown # ""
  /\ ThisRun.fc = <<>>
  /\ ThisRun.calls.forecast = 0
  /\ ThisRun.calls.plot = 0
  /\ \A c \in DOMAIN ThisRun.calls : ThisRun.calls[c] <= 1

\* C8 (as claimed): any error raised while fetching history or weather,
\* building the dataset or training aborts the run.
C8_AnyErrorAborts == C8ErrorSeen => C8Aborted

\* a step of run() that ends it failed
C8Fails == ThisRun.raised = "" /\ ThisRun'.raised # ""

\* C8 (amended): an error that reaches run() -- the dates request, the POWER
\* request or _trainModel failing -- ends the run failed, with the failure
\* string as its last status, no forecast, no entry into
\* _forecastNext30Days or _plot and no stage entered twice, and the step
\* that fails leaves the chart as it was; the chart changes only when it is
\* cleared or when a run that did not fail plots its forecast.  (The error
\* of one fetchSubset request is caught in _fetchVISeries and the composite
\* skipped: the run goes on.)
C8_RaisedErrorAborts ==
  [][/\ ThisRun'.raised # "" => C8Aborted'
     /\ C8Fails => (chart' = chart /\ stats'.kind = "failed" /\ stats'.msg = ThisRun'.thrown)
     /\ chart' # chart =>
          \/ chart' = Blank
          \/ /\ ThisRun'.raised = ""
             /\ ThisRun'.outcome = "done"
             /\ chart' = Plot(ThisRun'.viSeries, ThisRun'.fc)]_vars

\* C8 witness: a run whose POWER request failed after one subset request had
\* been skipped, ended failed with the chart of an earlier run still drawn
C8_Witness ==
  /\ ThisRun.raised = "weather"
  /\ ThisRun.skipped = 1
  /\ C8Aborted
  /\ stats.kind = "failed"
  /\ chart.drawn

\* the mean of the training samples' column j (0: the targets), summed
\* from the last sample to the first
RECURSIVE C12Sum(_, _)
C12Sum(j, i) ==
  IF i = 0 THEN Num(0)
  ELSE Add(C12Sum(j, i - 1), IF j = 0 THEN ThisRun.ds.y[i] ELSE ThisRun.ds.x[i][j])
C12Mean(j) == DivCount(C12Sum(j, Len(ThisRun.ds.x)), Len(ThisRun.ds.x))

\* C12: the standardisation parameters of the model that _trainModel
\* returned are those of the training samples (column means and target
\* mean over the samples of the dataset, deviations over the same rows), and
\* each of the 30 calls of infer in the forecast reads exactly these
\* parameters, whatever the loop has appended to its rolling history.
C12_ParamsFixed ==
  /\ ThisRun.model.kind = "model" =>
       LET std == ThisRun.model.infer.std
       IN  /\ \A j \in {1, 2, 3, 6, 7} : std.mu[j] = C12Mean(j)
           /\ \A j \in {4, 5} : std.mu[j].rows = Len(ThisRun.ds.x)
           /\ \A j \in 1..7 : std.sig[j].rows = Len(ThisRun.ds.x)
           /\ std.yMu = C12Mean(0)
           /\ std.ySig.rows = Len(ThisRun.ds.y)
  /\ ThisRun.calls.forecast = 1 =>
       /\ Len(ThisRun.reads) = 30
       /\ \A k \in 1..Len(ThisRun.reads) : ThisRun.reads[k] = ThisRun.model.infer.std

\* C12 witness: a finished run on 24 samples whose forecast values differ
\* from step to step, all 30 read with the parameters of the training
C12_Witness ==
  /\ ThisRun.outcome = "done"
  /\ Len(ThisRun.ds.x) = 24
  /\ Len(ThisRun.reads) = 30
  /\ ThisRun.fc[1].value # ThisRun.fc[2].value
  /\ ThisRun.reads[30].yMu = C12Mean(0)

\* C13: _forecastNext30Days leaves the series it is given as it was: from
\* the return of _fetchVISeries on, viSeries has the entries that were
\* fetched, and after the 30 steps the history handed to _plot is that
\* fetched series, of the same length, with no forecast point in it.
C13_HistoryUntouched ==
  /\ ThisRun.calls.weather = 1 => ThisRun.viSeries = ThisRun.fetched
  /\ ThisRun.calls.plot = 1 =>
       /\ Len(ThisRun.fc) = 30
       /\ Len(ThisRun.plotHist) = Len(ThisRun.fetched)
       /\ ThisRun.plotHist = ThisRun.fetched
       /\ \A i \in 1..Len(ThisRun.plotHist) : \A k \in 1..Len(ThisRun.fc) :
            ThisRun.plotHist[i].date # ThisRun.fc[k].date

\* C13 witness: a finished run whose 30 forecast points all have a value
\* (each was appended to the rolling history) and whose plotted history is
\* the 26 fetched composites
C13_Witness ==
  /\ ThisRun.outcome = "done"
  /\ chart.drawn
  /\ Len(ThisRun.fetched) = 26
  /\ chart.hist = ThisRun.fetched
  /\ Len(chart.fc) = 30
  /\ \A k \in 1..30 : chart.fc[k].value.k # "null"

\* the POWER response the observed run received, and its aggregates
C22Raw == rin[1][4].raw
C22Wx == ThisRun.wxByDate
\* the 17 days of the window centred on a date
C22Window(date) == {AddDays(date, k) : k \in -8..8}
\* the raw value is present, finite and above the sentinel
C22Valid(v) == v.k = "num" /\ v.n > -900 * v.d
C22ValidT(date) == {day \in C22Window(date) : C22Valid(RawT(C22Raw, day))}
C22ValidP(date) == {day \in C22Window(date) : C22Valid(RawP(C22Raw, day))}
RECURSIVE C22SumT(_)
C22SumT(S) ==
  IF S = {} THEN Num(0)
  ELSE LET day == CHOOSE x \in S : TRUE
       IN  Add(RawT(C22Raw, day), C22SumT(S \ {day}))
RECURSIVE C22SumP(_)
C22SumP(S) ==
  IF S = {} THEN Num(0)
  ELSE LET day == CHOOSE x \in S : TRUE
       IN  Add(RawP(C22Raw, day), C22SumP(S \ {day}))

\* C22: when _fetchWeatherByDate has returned and the run awaits the fit,
\* the mapping has exactly one
\* aggregate per observation date; its mean temperature is the arithmetic
\* mean, and its total precipitation the sum, of the valid raw values of the
\* 17 days date-8 .. date+8, and a metric is absent exactly when no day of
\* the window has a valid value for it.
C22_WindowAggregates ==
  (C22Wx # <<>> /\ rpc[1] = "train") =>
    /\ Len(C22Wx) = Len(ThisRun.viSeries)
    /\ \A i \in 1..Len(C22Wx) :
         LET date == ThisRun.viSeries[i].date
             ts   == C22ValidT(date)
             ps   == C22ValidP(date)
         IN  /\ C22Wx[i].date = date
             /\ Cardinality(C22Window(date)) = 17
             /\ IsNull(C22Wx[i].tMean) <=> ts = {}
             /\ IsNull(C22Wx[i].pSum) <=> ps = {}
             /\ ts # {} => C22Wx[i].tMean = DivCount(C22SumT(ts), Cardinality(ts))
             /\ ps # {} => C22Wx[i].pSum = C22SumP(ps)

\* C22 witness: the response has the fill value for temperature on the
\* whole window of the fifth composite: its mean temperature is absent and
\* its precipitation is not, and the first composite, whose window starts
\* before the request, has the aggregates of the 9 days the response holds
C22_Witness ==
  /\ rpc[1] = "train"
  /\ Len(C22Wx) >= 5
  /\ C22Raw.gap = "T"
  /\ IsNull(C22Wx[5].tMean)
  /\ ~IsNull(C22Wx[5].pSum)
  /\ Cardinality(C22ValidT(ThisRun.viSeries[1].date)) = 9
  /\ ~IsNull(C22Wx[1].tMean)
  /\ Cardinality(C22ValidT(ThisRun.viSeries[4].date)) \in 1..16

\* the observed run has been given its weather; the dates service listed at
\* least the dates the run keeps, every composite was read with a valid
\* value, and the weather is complete
C25Years == rin[1][1]
C25Complete ==
  /\ Len(rin[1]) >= 4
  /\ Len(rin[1][2].dates) >= KeepCount(C25Years)
  /\ Len(ThisRun.entries) = KeepCount(C25Years)
  /\ Len(ThisRun.fetched) = Len(ThisRun.entries)
  /\ rin[1][4].kind = "ok"
  /\ rin[1][4].raw.gap = ""

\* C25 (as claimed): for every years value, a run whose kept composites are
\* all valid and have complete weather builds at least 24 samples and
\* enters training.
C25_TrainingReachable ==
  C25Complete =>
    /\ Len(ThisRun.ds.x) >= MinSamples
    /\ ThisRun.calls.train = 1

\* what the code does: such a run builds two samples fewer than the dates it
\* keeps, which for years = 1 is 21
C25_SamplesBuilt ==
  C25Complete =>
    /\ Len(ThisRun.ds.x) = KeepCount(C25Years) - 2
    /\ C25Years = 1 => (KeepCount(C25Years) = 23 /\ ThisRun.outcome = "insufficient")
    /\ \A y \in 2..8 : KeepCount(y) - 2 >= MinSamples

\* clear() has run and nothing was written since
C27Cleared == stats = St("cleared", "", 0) /\ chart = Blank

\* the step is an invocation of run()
C27Invoked == rpc[1] \in {"idle", "done"} /\ Len(rin'[1]) = 1

\* C27 (as claimed): once clear() has run, the status stays cleared and the
\* chart empty until run() is invoked again, also when a run was in progress
\* at the time of the clear.
C27_ClearedStays ==
  [][(C27Cleared /\ ~C27Invoked) => C27Cleared']_vars

\* what holds instead: the display stays cleared until run() is invoked
\* again when no run is in progress
C27_ClearedStaysWhenIdle ==
  [][(C27Cleared /\ rpc[1] \in {"idle", "done"} /\ ~C27Invoked) => C27Cleared']_vars

\* the statuses that end a run, and the run having passed the check of its
\* collaborators
C29Terminal == {"noHistory", "insufficient", "done", "failed"}
C29LastWrite(loc) == loc.writes[Len(loc.writes)]
C29Running == rpc[1] \notin {"idle", "done"}
C29Ended == rpc[1] = "done" /\ rloc[1].outcome # "alert"

\* the step in which the run ends writes a terminal status, and 'Done' with
\* the number of samples only when the chart was drawn in that step
C29EndsTerminal ==
  (C29Running /\ C29Ended') =>
    /\ stats'.kind \in C29Terminal
    /\ C29LastWrite(rloc'[1]) = stats'.kind
    /\ stats'.kind = "done" =>
         /\ chart'.drawn
         /\ chart' = Plot(rloc'[1].plotHist, rloc'[1].fc)
         /\ rloc'[1].calls.plot = 1
         /\ stats'.n = Len(rloc'[1].ds.x)

\* C29: when every awaited fetch and the training call complete or fail, a
\* run() that passed the collaborator check ends, and the last status it
\* writes is a terminal one (no history, insufficient samples, Done with the
\* sample count, Failed with the message), never an in-progress one; Done is
\* written only once the chart has been drawn.
C29_EndsWithTerminalStatus ==
  /\ [][C29EndsTerminal]_vars
  /\ [](C29Ended => C29LastWrite(rloc[1]) \in C29Terminal)
  /\ C29Running ~> C29Ended

\* C29 witness: a run that ended with Done and its chart drawn
C29_Witness ==
  /\ C29Ended
  /\ rloc[1].outcome = "done"
  /\ stats.kind = "done" /\ stats.n = MinSamples
  /\ chart.drawn /\ Len(chart.fc) = 30

(***************************************************************************)
(* Properties of interleaved runs (SpecConc)                               *)
(***************************************************************************)
\* what invocation r has computed
C14Computed(r) ==
  [pc |-> rpc[r], entries |-> rloc[r].entries, viSeries |-> rloc[r].viSeries,
   wxByDate |-> rloc[r].wxByDate, ds |-> rloc[r].ds, model |-> rloc[r].model,
   fc |-> rloc[r].fc, outcome |-> rloc[r].outcome, thrown |-> rloc[r].thrown]

\* C14: what an invocation of run() has computed -- its series, weather
\* mapping, dataset, standardisation parameters and model, forecast and
\* outcome -- depends only on what that invocation was given: two
\* invocations given the same years and the same responses hold the same
\* values, however their steps interleave and whichever ran first.
C14_NoSharedState ==
  \A r, q \in RunIds : rin[r] = rin[q] => C14Computed(r) = C14Computed(q)

\* C14 witness: two invocations that received the same five inputs and both
\* finished with a forecast from 24 samples
C14_Witness ==
  /\ rin[1] = rin[2]
  /\ Len(rin[1]) = 5
  /\ rloc[1].outcome = "done" /\ rloc[2].outcome = "done"
  /\ Len(rloc[1].ds.x) = 24
  /\ Len(rloc[2].fc) = 30

\* the last status invocation r wrote, from its locals
C26StatusOf(r) ==
  CASE rloc[r].outcome = "done" -> St("done", "", Len(rloc[r].ds.x))
    [] rloc[r].outcome = "insufficient" -> St("insufficient", "", 0)
    [] rloc[r].outcome = "nohistory" -> St("noHistory", "", 0)
    [] rloc[r].outcome = "failed" -> St("failed", rloc[r].thrown, 0)
    [] OTHER -> St("initial", "", 0)

\* both invocations began while the other was in progress or about to
\* begin, and both have finished; r began last
C26BothFinished == \A r \in RunIds : rpc[r] = "done"
C26Last == CHOOSE r \in RunIds : \A q \in RunIds : rloc[q].began <= rloc[r].began

\* C26 (as claimed): after two interleaved invocations of run() have both
\* finished, the status line shows the outcome of the invocation that began
\* last, and the chart shows its forecast when it drew one.
C26_LastStartedShown ==
  C26BothFinished =>
    /\ stats = C26StatusOf(C26Last)
    /\ rloc[C26Last].outcome = "done" =>
         chart = Plot(rloc[C26Last].plotHist, rloc[C26Last].fc)

\* what holds instead: the status line shows the last status of one of the
\* two invocations, the one whose last step ran last
C26_SomeRunShown ==
  C26BothFinished =>
    /\ \E r \in RunIds : stats = C26StatusOf(r)
    /\ chart.drawn => \E r \in RunIds :
         /\ rloc[r].outcome = "done"
         /\ chart = Plot(rloc[r].plotHist, rloc[r].fc)

(***************************************************************************)
(* Properties of the configuration (SpecConfig)                            *)
(***************************************************************************)
\* v is a number with lo <= v <= hi
C16Between(v, lo, hi) ==
  /\ v.k = "num"
  /\ lo.n * v.d <= v.n * lo.d
  /\ v.n * hi.d <= hi.n * v.d

\* C16 (as claimed): whatever the text of the two fields, run() passes
\* epochs an integer in [20, 1000] and a learning rate in [0.001, 0.1].
C16_ConfigInRange ==
  cpc = "done" =>
    /\ C16Between(cout.epochs, Num(20), Num(1000))
    /\ cout.epochs.d = 1
    /\ C16Between(cout.lr, Q(1, 1000), Q(1, 10))

\* what holds instead: the configuration is in range whenever the text of
\* the field is empty or starts (after white space) with a number
C16_InRangeWhenNumeric ==
  cpc = "done" =>
    /\ cout.epochs.k # "nan" =>
         C16Between(cout.epochs, Num(20), Num(1000)) /\ cout.epochs.d = 1
    /\ cout.lr.k # "nan" => C16Between(cout.lr, Q(1, 1000), Q(1, 10))
    /\ cin.epochs = <<>> => cout.epochs = Num(120)
    /\ cin.lr = <<>> => cout.lr = Q(1, 100)

(***************************************************************************)
(* Properties of _toISO (SpecToken)                                        *)
(***************************************************************************)
C23Composite == kin.text \in CompositeTexts
C23Year == NumberOf(SubSeq(kin.text, 1, 4))
C23Day == NumberOf(SubSeq(kin.text, 6, 8))
\* the day-of-year is one of the year
C23ValidDay == C23Day >= 1 /\ C23Day <= (IF LeapYear(C23Year) THEN 366 ELSE 365)
\* the round trip: a calendar date of the year of the token whose _doy is
\* the day-of-year of the token
C23RoundTrip ==
  /\ kout.iso.k = "text"
  /\ kout.pushed
  /\ IsIsoText(kout.iso.text)
  /\ ValidDate(ParseIso(kout.iso.text))
  /\ ParseIso(kout.iso.text).y = C23Year
  /\ kout.doy = Num(C23Day)
\* the tokens of the other shapes
C23Others ==
  /\ kin.text \in IsoTexts => (kout.iso = Text(kin.text) /\ kout.pushed)
  /\ kin.text \in OtherTexts => (kout.iso = NoText /\ ~kout.pushed)

C24Constant == \A i \in 1..Len(zin) : zin[i] = zin[1]

\* C24 (as claimed): the standard deviation stored for a column is not 0,
\* and it is 1 for a column whose values are all equal and for a column of
\* a single value.
C24_ConstantColumnGetsOne ==
  zpc = "done" =>
    /\ zout.s # Num(0)
    /\ (C24Constant \/ Len(zin) = 1) => zout.s = Num(1)

\* what the code does: the standard deviation stored is never 0 and is 1
\* for a single value, and for equal values it is 1 exactly when the mean
\* the doubles give is that value
C24_NeverZero ==
  zpc = "done" =>
    /\ zout.s # Num(0)
    /\ Len(zin) = 1 => zout.s = Num(1)
    /\ C24Constant => (zout.s = Num(1) <=> zout.m = ToDouble(zin[1]))


(***************************************************************************)
(* Properties of init() and the clicks (SpecBind)                          *)
(***************************************************************************)
\* C28 (as claimed): after one or more calls of init(), each button that
\* exists has exactly one click listener, and a click on the train button
\* starts exactly one run.
C28_BoundOnce ==
  page.inits >= 1 =>
    /\ page.trainBtn => page.train = 1
    /\ page.clearBtn => page.clear = 1
    /\ page.last = "train" => page.started = 1

\* what holds instead: src/app.js binds once; in src/forecast.js every
\* call of init() adds a listener, and a click starts one run per call
C28_BoundOncePerInit ==
  /\ page.trainBtn => page.train = (IF page.impl = "app.js" THEN Min2(1, page.inits) ELSE page.inits)
  /\ page.clearBtn => page.clear = (IF page.impl = "app.js" THEN Min2(1, page.inits) ELSE page.inits)
  /\ page.last = "train" => page.started = page.train
  /\ page.last = "clear" => page.cleared = page.clear

=============================================================================
